---------------------------- MODULE Spec2Model ----------------------------
(***************************************************************************)
(* Localization stage of the traffic manager (LocalizationStage.cpp).     *)
(*                                                                         *)
(* State: the per-actor waypoint buffers (buffer_map), the track traffic   *)
(* registry, the lane-change memory (last_lane_change_location), the       *)
(* junction-tracking set (vehicles_at_junction) and the output frame       *)
(* (output_array).  Operations: Update(index), RemoveActor(id), Reset().   *)
(*                                                                         *)
(* Lengths are integers; one unit is the spacing of two waypoints of a     *)
(* lane.  All distance comparisons of the code are on squared distances    *)
(* and are kept as such.                                                   *)
(***************************************************************************)
EXTENDS Integers, Sequences, FiniteSets, TLC

\* ------------------------------------------------------------------ bounds

\* Number of Update calls explored from the initial state.
MaxTicks == 3

\* Number of Update calls explored from a traffic scene of the three-lane
\* road.
MaxCalls == 1

\* Iterations after which a loop of Update that has not terminated is
\* reported as not terminating.  Every loop of Update that walks the graph
\* has the waypoint it stands on as its only loop-carried control state (the
\* front of the buffer and the junction end point are fixed while it runs),
\* so a run longer than the number of waypoints repeats a waypoint; in the
\* road graph below the only repeated waypoints lie on a cycle without a
\* branch, where the walk is deterministic and never ends.
MaxExtend == 46

\* ------------------------------------------------- constants (Constants.h)

HORIZON_RATE == 2
MINIMUM_HORIZON_LENGTH == 2
MAXIMUM_HORIZON_LENGTH == 4
MAX_START_DISTANCE == 8
JUNCTION_LOOK_AHEAD == 2
SAFE_DISTANCE_AFTER_JUNCTION == 1
INTER_LANE_CHANGE_DISTANCE == 2
MINIMUM_LANE_CHANGE_DISTANCE == 2
MAXIMUM_LANE_OBSTACLE_DISTANCE == 8
\* MAXIMUM_LANE_OBSTACLE_CURVATURE is 0.6: kept as the fraction 6/10.
MAXIMUM_LANE_OBSTACLE_CURVATURE_X10 == 6

\* Literals of LocalizationStage.cpp.
LaneChangeSpeedFactor == 10
\* Clamp(1.5f * speed, 3.0f, 20.0f), kept doubled to stay in the integers.
ChangeOverFactorX2 == 3
ChangeOverMinX2 == 6
ChangeOverMaxX2 == 40
KeepRightModulus == 101

SQUARE(x) == x * x
MIN(a, b) == IF a < b THEN a ELSE b
MAX(a, b) == IF a > b THEN a ELSE b

\* --------------------------------------------------------- the road graph

\* nullptr of SimpleWaypointPtr.
NULL == 0

\* The waypoints, addressed by id 1..Len(WP).  `next` is the list returned by
\* GetNextWaypoint() (it may be empty and may hold NULL entries), `left` and
\* `right` the lane neighbours, `fwd` the forward vector.
\*
\*   lane A   1 - 2 - 3 - [4] - [5] - 6 - 7 - 8 - 9 =< 10 - 12 - 13 (dead end)
\*                               /                  \  11 /
\*   lane B  14 - 15 - 16 - 17 -'          ([n] = junction waypoint)
\*   18: every successor entry is NULL
\*   19 - 20 - [21] <-> [22]: junction waypoints that form a cycle
\*
\* and a road of three lanes, x = 50 .. 53, that merge into a junction whose
\* exit 29 is a branch point:
\*
\*   left    35 - 36 - 37 - 38 -.
\*   middle  23 - 24 - 25 - 26 - [27] - [28] - 29 =< 30 >- 32 - 33 - 34 - 44 - 45
\*   right   39 - 40 - 41 - 42 -'                  \  31 /              (dead end)
\*   stub         43 (dead end)
\*
\* 24 .. 26 have both lane neighbours; at 23 the lane marking lets 35 change
\* over to 23 but not 23 to 35, so 23 has no left neighbour.  43 is a lane
\* to the right of 40 that ends where it begins: it has no successor.
W(x, y, j, r, l, n, lf, rt) ==
    [loc |-> <<x, y>>, junction |-> j, road |-> r, lane |-> l,
     next |-> n, left |-> lf, right |-> rt, fwd |-> <<1, 0>>]

WP ==
    << W(0, 0, FALSE, 1, 1, <<2>>, NULL, 14),
       W(1, 0, FALSE, 1, 1, <<3>>, NULL, 15),
       W(2, 0, FALSE, 1, 1, <<4>>, NULL, 16),
       W(3, 0, TRUE,  2, 1, <<5>>, NULL, NULL),
       W(4, 0, TRUE,  2, 1, <<6>>, NULL, NULL),
       W(5, 0, FALSE, 3, 1, <<7>>, NULL, NULL),
       W(6, 0, FALSE, 3, 1, <<8>>, NULL, NULL),
       W(7, 0, FALSE, 3, 1, <<9>>, NULL, NULL),
       W(8, 0, FALSE, 3, 1, <<NULL, 10, 11>>, NULL, NULL),
       W(9, 0, FALSE, 4, 1, <<12>>, NULL, NULL),
       W(9, 1, FALSE, 5, 1, <<12>>, NULL, NULL),
       W(10, 0, FALSE, 4, 1, <<13>>, NULL, NULL),
       W(11, 0, FALSE, 4, 1, << >>, NULL, NULL),
       W(0, 1, FALSE, 1, 2, <<15>>, 1, NULL),
       W(1, 1, FALSE, 1, 2, <<16>>, 2, NULL),
       W(2, 1, FALSE, 1, 2, <<17>>, 3, NULL),
       W(3, 1, FALSE, 1, 2, <<5>>, NULL, NULL),
       W(20, 0, FALSE, 6, 1, <<NULL, NULL>>, NULL, NULL),
       W(30, 0, FALSE, 7, 1, <<20>>, NULL, NULL),
       W(31, 0, FALSE, 7, 1, <<21>>, NULL, NULL),
       W(32, 0, TRUE,  8, 1, <<22>>, NULL, NULL),
       W(33, 0, TRUE,  8, 1, <<21>>, NULL, NULL),
       W(50, 0, FALSE, 10, 2, <<24>>, NULL, 39),
       W(51, 0, FALSE, 10, 2, <<25>>, 36, 40),
       W(52, 0, FALSE, 10, 2, <<26>>, 37, 41),
       W(53, 0, FALSE, 10, 2, <<27>>, 38, 42),
       W(54, 0, TRUE,  11, 2, <<28>>, NULL, NULL),
       W(55, 0, TRUE,  11, 2, <<29>>, NULL, NULL),
       W(56, 0, FALSE, 12, 2, <<30, 31>>, NULL, NULL),
       W(57, 0, FALSE, 12, 2, <<32>>, NULL, NULL),
       W(57, 1, FALSE, 13, 2, <<32>>, NULL, NULL),
       W(58, 0, FALSE, 12, 2, <<33>>, NULL, NULL),
       W(59, 0, FALSE, 12, 2, <<34>>, NULL, NULL),
       W(60, 0, FALSE, 12, 2, <<44>>, NULL, NULL),
       W(50, -1, FALSE, 10, 1, <<36>>, NULL, 23),
       W(51, -1, FALSE, 10, 1, <<37>>, NULL, 24),
       W(52, -1, FALSE, 10, 1, <<38>>, NULL, 25),
       W(53, -1, FALSE, 10, 1, <<27>>, NULL, 26),
       W(50, 1, FALSE, 10, 3, <<40>>, 23, NULL),
       W(51, 1, FALSE, 10, 3, <<41>>, 24, 43),
       W(52, 1, FALSE, 10, 3, <<42>>, 25, NULL),
       W(53, 1, FALSE, 10, 3, <<27>>, 26, NULL),
       W(51, 2, FALSE, 10, 4, << >>, 40, NULL),
       W(61, 0, FALSE, 12, 2, <<45>>, NULL, NULL),
       W(62, 0, FALSE, 12, 2, << >>, NULL, NULL) >>

WaypointIds == 1 .. Len(WP)

GetLocation(w) == WP[w].loc
CheckJunction(w) == WP[w].junction
GetNextWaypoint(w) == WP[w].next
GetLeftWaypoint(w) == WP[w].left
GetRightWaypoint(w) == WP[w].right
GetForwardVector(w) == WP[w].fwd
GetRoadId(w) == WP[w].road
GetLaneId(w) == WP[w].lane

\* cg::Math::DistanceSquared and cg::Math::Dot on the plane.
DistanceSquared(p, q) == SQUARE(p[1] - q[1]) + SQUARE(p[2] - q[2])
Dot(u, v) == u[1] * v[1] + u[2] * v[2]
Minus(p, q) == <<p[1] - q[1], p[2] - q[2]>>

\* SimpleWaypoint::DistanceSquared(other).
WpDistanceSquared(w, v) == DistanceSquared(GetLocation(w), GetLocation(v))

\* Sign of DeviationDotProduct(reference, heading, target): the code only
\* compares it with 0, and normalising the vector keeps the sign.
DeviationDotProduct(reference_location, heading_vector, target_location) ==
    Dot(heading_vector, Minus(target_location, reference_location))

\* ---------------------------------------------------- the road map lookups

VicinityRadiusSquared == 1

Nearest(S, location) ==
    CHOOSE w \in S :
        \A v \in S :
            \/ DistanceSquared(GetLocation(w), location)
                   < DistanceSquared(GetLocation(v), location)
            \/ /\ DistanceSquared(GetLocation(w), location)
                      = DistanceSquared(GetLocation(v), location)
               /\ w <= v

\* local_map->GetWaypoint(location): the nearest waypoint, however far.
GetWaypoint(location) == Nearest(WaypointIds, location)

\* local_map->GetWaypointInVicinity(location): the nearest waypoint within
\* the vicinity radius, or nullptr.
GetWaypointInVicinity(location) ==
    LET near == { w \in WaypointIds :
                    DistanceSquared(GetLocation(w), location)
                        <= VicinityRadiusSquared }
    IN  IF near = {} THEN NULL ELSE Nearest(near, location)


\* ------------------------------------------------ the track traffic registry

ActorIds == {1, 2}

\* The grid cell of a waypoint: a discretisation of the waypoint graph, two
\* consecutive waypoints of a lane to a cell.
Cell(w) == <<GetLocation(w)[1] \div 2, GetLocation(w)[2]>>
Cells == { Cell(w) : w \in WaypointIds }

Range(seq) == { seq[i] : i \in 1 .. Len(seq) }
BufferCells(buf) == { Cell(w) : w \in Range(buf) }

\* TrackTraffic::UpdatePassingVehicle / RemovePassingVehicle.
UpdatePassingVehicle(reg, w, actor_id) ==
    [reg EXCEPT ![Cell(w)] = @ \cup {actor_id}]
RemovePassingVehicle(reg, w, actor_id) ==
    [reg EXCEPT ![Cell(w)] = @ \ {actor_id}]

\* TrackTraffic::GetPassingVehicles(waypoint id).
GetPassingVehicles(reg, w) == reg[Cell(w)]

\* TrackTraffic::GetOverlappingVehicles(actor): the actors that share a cell
\* with the actor.
GetOverlappingVehicles(reg, actor_id) ==
    UNION { reg[c] : c \in { d \in Cells : actor_id \in reg[d] } } \ {actor_id}

\* TrackTraffic::UpdateGridPosition(actor, buffer): the actor's memberships
\* become those of its buffer (stale ones removed, new ones added).
UpdateGridPosition(reg, actor_id, buf) ==
    IF buf = << >> THEN reg
    ELSE [c \in Cells |->
            IF c \in BufferCells(buf) THEN reg[c] \cup {actor_id}
            ELSE reg[c] \ {actor_id}]

\* ------------------------------------------- the working state of an Update

\* Update works on a record s: buf is waypoint_buffer (the actor's entry of
\* buffer_map), reg the registry, llc last_lane_change_location, vaj
\* vehicles_at_junction, out the actor's record of output_array.  st is
\* "run" while the call executes, and names how it ended otherwise:
\*   "populate:out_of_range"  next_waypoints.at(0) on an empty list throws
\*   "<step>:null_deref"      PushWaypoint reads the id of a null waypoint
\*   "<step>:empty_front"     front() / [0] of an empty container
\*   "<step>:diverged"        the loop never ends
\* entrance is is_at_junction_entrance, changed tells that a lane change was
\* performed, jpush counts the waypoints pushed by the junction extension.
Failed(s) == s.st # "run"

\* PushWaypoint(actor_id, track_traffic, buffer, waypoint): the waypoint's id
\* is read first, so a null waypoint faults before the buffer is touched.
PushWaypoint(actor_id, s, waypoint, step) ==
    IF Failed(s) THEN s
    ELSE IF waypoint = NULL THEN [s EXCEPT !.st = step \o ":null_deref"]
    ELSE [s EXCEPT !.buf = Append(@, waypoint),
                   !.reg = UpdatePassingVehicle(@, waypoint, actor_id)]

\* PopWaypoint(actor_id, track_traffic, buffer, front_or_back).
PopWaypoint(actor_id, s, front_or_back) ==
    LET removed == IF front_or_back THEN Head(s.buf) ELSE s.buf[Len(s.buf)]
    IN  [s EXCEPT !.buf = IF front_or_back THEN Tail(@)
                          ELSE SubSeq(@, 1, Len(@) - 1),
                  !.reg = RemovePassingVehicle(@, removed, actor_id)]

\* for (j = 0; j < number_of_pops; ++j) PopWaypoint(...)
RECURSIVE PopN(_, _, _)
PopN(actor_id, s, n) ==
    IF n = 0 THEN s ELSE PopN(actor_id, PopWaypoint(actor_id, s, TRUE), n - 1)

\* GetTargetWaypoint(buffer, look_ahead).first: the waypoint at the look-ahead
\* index, the back of the buffer when the buffer is shorter.
GetTargetWaypoint(buf, look_ahead) ==
    IF look_ahead < Len(buf) THEN buf[look_ahead + 1] ELSE buf[Len(buf)]

HorizonLength(vehicle_speed) ==
    MIN(vehicle_speed * HORIZON_RATE + MINIMUM_HORIZON_LENGTH,
        MAXIMUM_HORIZON_LENGTH)
HorizonSquare(vehicle_speed) == SQUARE(HorizonLength(vehicle_speed))

Front(buf) == buf[1]
Back(buf) == buf[Len(buf)]
BackToFront(buf) == WpDistanceSquared(Back(buf), Front(buf))

\* Lines 45-56: clear the buffer if the vehicle is too far from its front.
ClearIfFar(s, in) ==
    IF /\ s.buf # << >>
       /\ DistanceSquared(GetLocation(Front(s.buf)), in.loc)
              > SQUARE(MAX_START_DISTANCE)
    THEN PopN(in.actor, s, Len(s.buf))
    ELSE s

\* Lines 62-72: purge the waypoints the vehicle has passed.
RECURSIVE PurgePassed(_, _)
PurgePassed(s, in) ==
    IF /\ s.buf # << >>
       /\ DeviationDotProduct(in.loc, in.heading, GetLocation(Front(s.buf))) <= 0
    THEN PurgePassed(PopWaypoint(in.actor, s, TRUE), in)
    ELSE s

\* Lines 74-75.  The buffer is not tested again after the purge: on an empty
\* buffer front() and GetTargetWaypoint read a popped slot of the deque, which
\* either faults or yields a stale waypoint, and so either truth value.
JunctionEntrance(s) ==
    IF s.buf = << >>
    THEN { [s EXCEPT !.st = "entrance:empty_front"],
           [s EXCEPT !.entrance = TRUE],
           [s EXCEPT !.entrance = FALSE] }
    ELSE { [s EXCEPT !.entrance =
                /\ ~CheckJunction(Front(s.buf))
                /\ CheckJunction(GetTargetWaypoint(s.buf, JUNCTION_LOOK_AHEAD))] }

\* Variant of PurgeBack: the purge from the back is left out.
PurgeBackNone(s, in) == s

\* Lines 77-83: purge the waypoints too far from the front of the buffer.
RECURSIVE PurgeBack(_, _)
PurgeBack(s, in) ==
    IF /\ ~Failed(s)
       /\ ~s.entrance
       /\ s.buf # << >>
       /\ BackToFront(s.buf) > HorizonSquare(in.speed)
    THEN PurgeBack(PopWaypoint(in.actor, s, FALSE), in)
    ELSE s

\* Lines 60-84.
PurgeStep(s, in) ==
    IF s.buf = << >> THEN {s}
    ELSE { PurgeBack(t, in) : t \in JunctionEntrance(PurgePassed(s, in)) }

\* Lines 86-95: initialise the buffer if it is empty.
SeedWaypoint(location) ==
    IF GetWaypointInVicinity(location) = NULL
    THEN GetWaypoint(location)
    ELSE GetWaypointInVicinity(location)

SeedStep(s, in) ==
    IF ~Failed(s) /\ s.buf = << >>
    THEN PushWaypoint(in.actor, s, SeedWaypoint(in.loc), "seed")
    ELSE s

\* ------------------------------------------------------- AssignLaneChange

\* std::numeric_limits<float>::infinity() of minimum_squared_distance.
INFINITY == -1

\* The orders in which the set blocking_vehicles can be iterated.
RECURSIVE Orders(_)
Orders(S) ==
    IF S = {} THEN { << >> }
    ELSE UNION { { <<x>> \o o : o \in Orders(S \ {x}) } : x \in S }

\* Lines 318-323: the other vehicle is a same-lane obstacle ahead.
QualifiesAsObstacle(current_waypoint, other_current_waypoint) ==
    /\ ~CheckJunction(current_waypoint)
    /\ ~CheckJunction(other_current_waypoint)
    /\ GetRoadId(other_current_waypoint) = GetRoadId(current_waypoint)
    /\ GetLaneId(other_current_waypoint) = GetLaneId(current_waypoint)
    /\ Dot(GetForwardVector(current_waypoint),
           Minus(GetLocation(other_current_waypoint),
                 GetLocation(current_waypoint))) > 0
    /\ 10 * Dot(GetForwardVector(current_waypoint),
                GetForwardVector(other_current_waypoint))
           > MAXIMUM_LANE_OBSTACLE_CURVATURE_X10

\* Variant of ScanOne: an obstacle that is too close is passed over.
ScanOneNoAbort(acc, other_actor_id, current_waypoint, vehicle_location, bm) ==
    IF other_actor_id \in DOMAIN bm /\ bm[other_actor_id] # << >>
    THEN LET other_current_waypoint == Front(bm[other_actor_id])
             squared_distance ==
                 DistanceSquared(vehicle_location,
                                 GetLocation(other_current_waypoint))
         IN  IF /\ QualifiesAsObstacle(current_waypoint, other_current_waypoint)
                /\ squared_distance > SQUARE(MINIMUM_LANE_CHANGE_DISTANCE)
                /\ \/ acc.minimum_squared_distance = INFINITY
                   \/ squared_distance < acc.minimum_squared_distance
                /\ squared_distance < SQUARE(MAXIMUM_LANE_OBSTACLE_DISTANCE)
             THEN [acc EXCEPT !.minimum_squared_distance = squared_distance,
                              !.obstacle_actor_id = other_actor_id]
             ELSE acc
    ELSE acc

\* Lines 303-341: the body of the scan, for one blocking vehicle.
ScanOne(acc, other_actor_id, current_waypoint, vehicle_location, bm) ==
    IF other_actor_id \in DOMAIN bm /\ bm[other_actor_id] # << >>
    THEN LET other_current_waypoint == Front(bm[other_actor_id])
             squared_distance ==
                 DistanceSquared(vehicle_location,
                                 GetLocation(other_current_waypoint))
         IN  IF QualifiesAsObstacle(current_waypoint, other_current_waypoint)
             THEN IF squared_distance > SQUARE(MINIMUM_LANE_CHANGE_DISTANCE)
                  THEN IF /\ \/ acc.minimum_squared_distance = INFINITY
                                \/ squared_distance < acc.minimum_squared_distance
                          /\ squared_distance
                                 < SQUARE(MAXIMUM_LANE_OBSTACLE_DISTANCE)
                       THEN [acc EXCEPT
                               !.minimum_squared_distance = squared_distance,
                               !.obstacle_actor_id = other_actor_id]
                       ELSE acc
                  ELSE [acc EXCEPT !.obstacle_too_close = TRUE]
             ELSE acc
    ELSE acc

\* Lines 296-342: the scan of the blocking vehicles, in the order `order`.
RECURSIVE ScanObstacles(_, _, _, _, _, _)
ScanObstacles(acc, order, force, current_waypoint, vehicle_location, bm) ==
    IF order = << >> \/ acc.obstacle_too_close \/ force THEN acc
    ELSE ScanObstacles(
             ScanOne(acc, Head(order), current_waypoint, vehicle_location, bm),
             Tail(order), force, current_waypoint, vehicle_location, bm)

\* Lines 347-383: the side chosen next to the obstacle found.
ChooseSide(reg, bm, obstacle_actor_id, left_waypoint, right_waypoint) ==
    LET other_current_waypoint == Front(bm[obstacle_actor_id])
        other_left == GetLeftWaypoint(other_current_waypoint)
        other_right == GetRightWaypoint(other_current_waypoint)
        distant_left_lane_free ==
            other_left # NULL /\ GetPassingVehicles(reg, other_left) = {}
        distant_right_lane_free ==
            other_right # NULL /\ GetPassingVehicles(reg, other_right) = {}
    IN  IF /\ distant_right_lane_free
           /\ right_waypoint # NULL
           /\ GetPassingVehicles(reg, right_waypoint) = {}
        THEN right_waypoint
        ELSE IF /\ distant_left_lane_free
                /\ left_waypoint # NULL
                /\ GetPassingVehicles(reg, left_waypoint) = {}
        THEN left_waypoint
        ELSE NULL

\* Variant of ForcedSide: the other neighbour is taken when the requested
\* one is missing.
ForcedSideEither(direction, left_waypoint, right_waypoint) ==
    IF direction
    THEN IF right_waypoint # NULL THEN right_waypoint ELSE left_waypoint
    ELSE IF left_waypoint # NULL THEN left_waypoint ELSE right_waypoint

\* Lines 385-395: the forced path.
ForcedSide(direction, left_waypoint, right_waypoint) ==
    IF direction /\ right_waypoint # NULL THEN right_waypoint
    ELSE IF ~direction /\ left_waypoint # NULL THEN left_waypoint
    ELSE NULL

\* cg::Math::Clamp(1.5f * vehicle_speed, 3.0f, 20.0f), doubled.
ChangeOverDistanceX2(vehicle_speed) ==
    MIN(MAX(ChangeOverFactorX2 * vehicle_speed, ChangeOverMinX2), ChangeOverMaxX2)

\* Lines 397-406: the change-over point is projected along the first
\* successors.  [0] of an empty successor list is a read through the null
\* data pointer of the vector, and a null successor is dereferenced by the
\* next test of the loop: both fault.
RECURSIVE ProjectChangeOver(_, _, _, _)
ProjectChangeOver(change_over_point, starting_point, vehicle_speed, fuel) ==
    IF change_over_point = NULL
    THEN [cop |-> NULL, st |-> "lane_change:null_deref"]
    ELSE IF /\ 4 * WpDistanceSquared(change_over_point, starting_point)
                  < SQUARE(ChangeOverDistanceX2(vehicle_speed))
            /\ ~CheckJunction(change_over_point)
    THEN IF fuel = 0
         THEN [cop |-> NULL, st |-> "lane_change:diverged"]
         ELSE IF GetNextWaypoint(change_over_point) = << >>
         THEN [cop |-> NULL, st |-> "lane_change:empty_front"]
         ELSE ProjectChangeOver(GetNextWaypoint(change_over_point)[1],
                                starting_point, vehicle_speed, fuel - 1)
    ELSE [cop |-> change_over_point, st |-> "run"]

\* Variant of ChangeOverCandidate: with no obstacle found, the right
\* neighbour is taken when no vehicle passes through it.
ChangeOverCandidateProactive(s, bm, acc, force, direction) ==
    LET left_waypoint == GetLeftWaypoint(Front(s.buf))
        right_waypoint == GetRightWaypoint(Front(s.buf))
    IN  IF ~acc.obstacle_too_close /\ acc.obstacle_actor_id # 0 /\ ~force
        THEN ChooseSide(s.reg, bm, acc.obstacle_actor_id,
                        left_waypoint, right_waypoint)
        ELSE IF force
        THEN ForcedSide(direction, left_waypoint, right_waypoint)
        ELSE IF /\ ~acc.obstacle_too_close
                /\ right_waypoint # NULL
                /\ GetPassingVehicles(s.reg, right_waypoint) = {}
        THEN right_waypoint
        ELSE NULL

\* Variant of ChangeOverCandidate: the forced path takes the neighbour only
\* if no vehicle passes through it.
ChangeOverCandidateIfFree(s, bm, acc, force, direction) ==
    LET left_waypoint == GetLeftWaypoint(Front(s.buf))
        right_waypoint == GetRightWaypoint(Front(s.buf))
        side == ForcedSide(direction, left_waypoint, right_waypoint)
    IN  IF ~acc.obstacle_too_close /\ acc.obstacle_actor_id # 0 /\ ~force
        THEN ChooseSide(s.reg, bm, acc.obstacle_actor_id,
                        left_waypoint, right_waypoint)
        ELSE IF force /\ side # NULL /\ GetPassingVehicles(s.reg, side) = {}
        THEN side
        ELSE NULL

\* Lines 344-395: the neighbour waypoint the lane change starts from, NULL
\* when change_over_point stays nullptr.
ChangeOverCandidate(s, bm, acc, force, direction) ==
    LET left_waypoint == GetLeftWaypoint(Front(s.buf))
        right_waypoint == GetRightWaypoint(Front(s.buf))
    IN  IF ~acc.obstacle_too_close /\ acc.obstacle_actor_id # 0 /\ ~force
        THEN ChooseSide(s.reg, bm, acc.obstacle_actor_id,
                        left_waypoint, right_waypoint)
        ELSE IF force
        THEN ForcedSide(direction, left_waypoint, right_waypoint)
        ELSE NULL

\* Lines 296-298: the locals of the scan before the loop.
ScanStart ==
    [obstacle_too_close |-> FALSE, minimum_squared_distance |-> INFINITY,
     obstacle_actor_id |-> 0]

\* Lines 295-410, blocking_vehicles being the set read at line 293.  The
\* result is a record: cop the change-over point (NULL for nullptr), st "run"
\* when the call returned.
AssignLaneChangeFrom(s, bm, blocking_vehicles, vehicle_location, vehicle_speed, force, direction) ==
    LET current_waypoint == Front(s.buf)
        Chosen(acc) == ChangeOverCandidate(s, bm, acc, force, direction)
    IN  { IF Chosen(acc) = NULL THEN [cop |-> NULL, st |-> "run"]
          ELSE ProjectChangeOver(Chosen(acc), Chosen(acc), vehicle_speed,
                                 MaxExtend) :
          acc \in { ScanObstacles(ScanStart, order, force, current_waypoint,
                                  vehicle_location, bm) :
                    order \in Orders(blocking_vehicles) } }

\* Lines 271-410.
AssignLaneChange(s, bm, actor_id, vehicle_location, vehicle_speed, force, direction) ==
    IF s.buf = << >> THEN { [cop |-> NULL, st |-> "run"] }
    ELSE AssignLaneChangeFrom(s, bm, GetOverlappingVehicles(s.reg, actor_id),
                              vehicle_location, vehicle_speed, force, direction)

\* ---------------------------------------------------- the lane-change step

\* Lines 98-110: the forced request of the policy, or the keep-right bias;
\* in.rnd is rand() % 101.
ForceLaneChange(in) ==
    in.force \/ (in.perc_keep_right >= 0 /\ in.perc_keep_right >= in.rnd)
LaneChangeDirection(in) ==
    IF in.force THEN in.direction
    ELSE IF in.perc_keep_right >= 0 /\ in.perc_keep_right >= in.rnd THEN TRUE
    ELSE in.direction

LaneChangeDistance(vehicle_speed) ==
    SQUARE(MAX(LaneChangeSpeedFactor * vehicle_speed, INTER_LANE_CHANGE_DISTANCE))

\* Variant of LaneChangeEligible: the front waypoint is not tested for a
\* junction.
LaneChangeEligibleAtJunction(s, in) ==
    /\ (in.auto \/ ForceLaneChange(in))
    /\ \/ in.actor \notin DOMAIN s.llc
       \/ DistanceSquared(s.llc[in.actor], in.loc) > LaneChangeDistance(in.speed)

\* Variant of LaneChangeEligible: the lane-change memory is not consulted.
LaneChangeEligibleNoMemory(s, in) ==
    (in.auto \/ ForceLaneChange(in)) /\ ~CheckJunction(Front(s.buf))

\* Lines 115-117: the condition under which the negotiator is invoked.
LaneChangeEligible(s, in) ==
    /\ (in.auto \/ ForceLaneChange(in)) /\ ~CheckJunction(Front(s.buf))
    /\ \/ in.actor \notin DOMAIN s.llc
       \/ DistanceSquared(s.llc[in.actor], in.loc) > LaneChangeDistance(in.speed)

\* Variant of ApplyLaneChange: an existing entry of the lane-change memory
\* is not overwritten.
ApplyLaneChangeInsertOnly(s, in, change_over_point) ==
    LET t == [s EXCEPT !.llc = [a \in DOMAIN s.llc \cup {in.actor} |->
                                  IF a \in DOMAIN s.llc THEN s.llc[a]
                                  ELSE in.loc],
                       !.changed = TRUE]
    IN  PushWaypoint(in.actor, PopN(in.actor, t, Len(t.buf)),
                     change_over_point, "lane_change")

\* Variant of ApplyLaneChange: the lane-change memory keeps the entry of the
\* actor only.
ApplyLaneChangeForget(s, in, change_over_point) ==
    LET t == [s EXCEPT !.llc = [a \in {in.actor} |-> in.loc],
                       !.changed = TRUE]
    IN  PushWaypoint(in.actor, PopN(in.actor, t, Len(t.buf)),
                     change_over_point, "lane_change")

\* Variant of ApplyLaneChange: the old buffer is not popped.
ApplyLaneChangeKeep(s, in, change_over_point) ==
    LET t == [s EXCEPT !.llc = [a \in DOMAIN s.llc \cup {in.actor} |->
                                  IF a = in.actor THEN in.loc ELSE s.llc[a]],
                       !.changed = TRUE]
    IN  PushWaypoint(in.actor, t, change_over_point, "lane_change")

\* Lines 125-137: the location of the change is remembered and the buffer
\* emptied.
DiscardBuffer(s, in) ==
    LET t == [s EXCEPT !.llc = [a \in DOMAIN s.llc \cup {in.actor} |->
                                  IF a = in.actor THEN in.loc ELSE s.llc[a]],
                       !.changed = TRUE]
    IN  PopN(in.actor, t, Len(t.buf))

\* Lines 123-139: the change-over point replaces the buffer.
ApplyLaneChange(s, in, change_over_point) ==
    PushWaypoint(in.actor, DiscardBuffer(s, in), change_over_point,
                 "lane_change")

\* What the lane-change step of an Update saw and did: the arguments of the
\* call of AssignLaneChange, the buffer, registry and lane-change memory
\* when the step began, the change-over point returned, and the buffer and
\* lane-change memory when the step ended.
NoLaneChange ==
    [force |-> FALSE, direction |-> FALSE, buf |-> << >>, reg |-> << >>,
     llc |-> << >>, cop |-> NULL, after_buf |-> << >>, after_llc |-> << >>]

\* Lines 98-117: the step begins.
BeginLaneChange(s, in) ==
    [s EXCEPT !.lc = [NoLaneChange EXCEPT
                        !.force = ForceLaneChange(in),
                        !.direction = LaneChangeDirection(in),
                        !.buf = s.buf, !.reg = s.reg, !.llc = s.llc,
                        !.after_buf = s.buf, !.after_llc = s.llc]]

\* Line 140: the step ends.
EndLaneChange(s, change_over_point) ==
    [s EXCEPT !.lc.cop = change_over_point,
              !.lc.after_buf = s.buf, !.lc.after_llc = s.llc]

\* Lines 120-140: the step after AssignLaneChange returned r.
LaneChangeResult(s, in, r) ==
    IF r.st # "run"
    THEN [BeginLaneChange(s, in) EXCEPT !.st = r.st, !.negotiated = TRUE]
    ELSE IF r.cop = NULL
    THEN EndLaneChange(
             [BeginLaneChange(s, in) EXCEPT !.negotiated = TRUE], NULL)
    ELSE EndLaneChange(
             ApplyLaneChange(
                 [BeginLaneChange(s, in) EXCEPT !.negotiated = TRUE],
                 in, r.cop),
             r.cop)

\* Lines 97-140.
LaneChangeStep(s, in, bm) ==
    IF Failed(s) THEN {s}
    ELSE IF ~LaneChangeEligible(s, in) THEN { BeginLaneChange(s, in) }
    ELSE { LaneChangeResult(s, in, r) :
           r \in AssignLaneChange(s, bm, in.actor, in.loc, in.speed,
                                  ForceLaneChange(in), LaneChangeDirection(in)) }

\* ------------------------------------------------- populating the buffer

\* Lines 147-152: the index drawn when there is more than one choice.
SelectionIndices(next_waypoints) ==
    IF Len(next_waypoints) > 1 THEN 0 .. Len(next_waypoints) - 1 ELSE {0}

\* Lines 156-163: the first non-null entry of the list, NULL when none.
RECURSIVE FirstNonNull(_)
FirstNonNull(next_waypoints) ==
    IF next_waypoints = << >> THEN NULL
    ELSE IF Head(next_waypoints) # NULL THEN Head(next_waypoints)
    ELSE FirstNonNull(Tail(next_waypoints))

\* Lines 153-164.
SelectNext(next_waypoints, selection_index) ==
    IF next_waypoints[selection_index + 1] # NULL
    THEN next_waypoints[selection_index + 1]
    ELSE FirstNonNull(next_waypoints)

\* Variant of WithinHorizon: a strict comparison.
WithinHorizonStrict(buf, vehicle_speed) ==
    BackToFront(buf) < HorizonSquare(vehicle_speed)

\* Line 143: the condition of the populating loop.
WithinHorizon(buf, vehicle_speed) ==
    BackToFront(buf) <= HorizonSquare(vehicle_speed)

\* Lines 142-166.  next_waypoints.at(selection_index) throws
\* std::out_of_range on an empty list.
RECURSIVE Populate(_, _, _)
Populate(s, in, fuel) ==
    IF Failed(s) THEN {s}
    ELSE IF ~WithinHorizon(s.buf, in.speed) THEN {s}
    ELSE IF fuel = 0 THEN { [s EXCEPT !.st = "populate:diverged"] }
    ELSE IF GetNextWaypoint(Back(s.buf)) = << >>
    THEN { [s EXCEPT !.st = "populate:out_of_range"] }
    ELSE UNION { Populate(PushWaypoint(in.actor, s,
                              SelectNext(GetNextWaypoint(Back(s.buf)), i),
                              "populate"),
                          in, fuel - 1) :
                 i \in SelectionIndices(GetNextWaypoint(Back(s.buf))) }

\* ------------------------------------------------ the junction extension

NoScan ==
    [entered_junction |-> FALSE, past_junction |-> FALSE,
     safe_point_found |-> FALSE, current_waypoint |-> NULL,
     junction_end_point |-> NULL, safe_point_after_junction |-> NULL]

\* Variant of ScanExisting: past_junction is never set by the scan.
RECURSIVE ScanExistingNoExit(_, _, _)
ScanExistingNoExit(buf, i, acc) ==
    IF i > Len(buf) THEN acc
    ELSE ScanExistingNoExit(buf, i + 1,
             [acc EXCEPT !.entered_junction = @ \/ CheckJunction(buf[i]),
                         !.current_waypoint = buf[i]])

\* Lines 182-200: scanning the existing buffer points.
RECURSIVE ScanExisting(_, _, _)
ScanExisting(buf, i, acc) ==
    IF i > Len(buf) \/ acc.safe_point_found THEN acc
    ELSE LET current_waypoint == buf[i]
             entered == acc.entered_junction \/ CheckJunction(current_waypoint)
             leaves == entered /\ ~acc.past_junction
                           /\ ~CheckJunction(current_waypoint)
             past == acc.past_junction \/ leaves
             end_point == IF leaves THEN current_waypoint
                          ELSE acc.junction_end_point
             found == past /\ WpDistanceSquared(end_point, current_waypoint)
                                  > SQUARE(SAFE_DISTANCE_AFTER_JUNCTION)
         IN  ScanExisting(buf, i + 1,
                 [entered_junction |-> entered, past_junction |-> past,
                  safe_point_found |-> found,
                  current_waypoint |-> current_waypoint,
                  junction_end_point |-> end_point,
                  safe_point_after_junction |->
                      IF found THEN current_waypoint
                      ELSE acc.safe_point_after_junction])

\* Lines 205-214: extend until the buffer is past the junction.  front() of an
\* empty successor list reads through the null data pointer of the vector.
RECURSIVE ExtendToExit(_, _, _)
ExtendToExit(s, in, fuel) ==
    IF Failed(s) \/ s.j.past_junction THEN s
    ELSE IF fuel = 0 THEN [s EXCEPT !.st = "junction:diverged"]
    ELSE IF GetNextWaypoint(s.j.current_waypoint) = << >>
    THEN [s EXCEPT !.st = "junction:empty_front"]
    ELSE LET current_waypoint == GetNextWaypoint(s.j.current_waypoint)[1]
             t == PushWaypoint(in.actor, s, current_waypoint, "junction")
         IN  IF Failed(t) THEN t
             ELSE ExtendToExit(
                      [t EXCEPT !.jpush = @ + 1,
                                !.j.current_waypoint = current_waypoint,
                                !.j.past_junction = ~CheckJunction(current_waypoint),
                                !.j.junction_end_point =
                                    IF CheckJunction(current_waypoint) THEN @
                                    ELSE current_waypoint],
                      in, fuel - 1)

\* Line 219-221: the waypoint is a safe point.
IsSafePoint(junction_end_point, current_waypoint) ==
    \/ WpDistanceSquared(junction_end_point, current_waypoint)
           > SQUARE(SAFE_DISTANCE_AFTER_JUNCTION)
    \/ Len(GetNextWaypoint(current_waypoint)) > 1
    \/ CheckJunction(current_waypoint)

\* Lines 216-231: extend until a safe point is found.
RECURSIVE ExtendToSafe(_, _, _)
ExtendToSafe(s, in, fuel) ==
    IF Failed(s) \/ s.j.safe_point_found THEN s
    ELSE IF IsSafePoint(s.j.junction_end_point, s.j.current_waypoint)
    THEN [s EXCEPT !.j.safe_point_found = TRUE,
                   !.j.safe_point_after_junction = s.j.current_waypoint]
    ELSE IF fuel = 0 THEN [s EXCEPT !.st = "junction:diverged"]
    ELSE IF GetNextWaypoint(s.j.current_waypoint) = << >>
    THEN [s EXCEPT !.st = "junction:empty_front"]
    ELSE LET current_waypoint == GetNextWaypoint(s.j.current_waypoint)[1]
             t == PushWaypoint(in.actor, s, current_waypoint, "junction")
         IN  IF Failed(t) THEN t
             ELSE ExtendToSafe(
                      [t EXCEPT !.jpush = @ + 1,
                                !.j.current_waypoint = current_waypoint],
                      in, fuel - 1)

\* Lines 203-232.
ExtendIfNotFound(s, in) ==
    IF s.j.safe_point_found THEN s
    ELSE ExtendToSafe(ExtendToExit(s, in, MaxExtend), in, MaxExtend)

\* LocalizationData.
LocalizationData(entrance, end_point, safe_point) ==
    [is_at_junction_entrance |-> entrance, junction_end_point |-> end_point,
     safe_point |-> safe_point]

\* Variant of LeaveJunction: the actor stays in the junction-tracking set.
LeaveJunctionKeep(s, in) ==
    [s EXCEPT !.out = LocalizationData(s.entrance, NULL, NULL)]

\* Lines 239-247: the actor is tracked and no longer at a junction entrance.
LeaveJunction(s, in) ==
    [s EXCEPT !.vaj = @ \ {in.actor},
              !.out = LocalizationData(s.entrance, NULL, NULL)]

\* Lines 168-247.
JunctionStep(s, in) ==
    IF Failed(s) THEN s
    ELSE IF s.entrance /\ in.actor \notin s.vaj
    THEN LET t == ExtendIfNotFound(
                      [s EXCEPT !.vaj = @ \cup {in.actor},
                                !.j = ScanExisting(s.buf, 1, NoScan)], in)
         IN  IF Failed(t) THEN t
             ELSE [t EXCEPT !.out = LocalizationData(t.entrance,
                                        t.j.junction_end_point,
                                        t.j.safe_point_after_junction)]
    ELSE IF ~s.entrance /\ in.actor \in s.vaj
    THEN LeaveJunction(s, in)
    ELSE s

\* Variant of GridStep: the grid position is not updated.
GridStepNoUpdate(s, in) ==
    IF Failed(s) THEN s ELSE [s EXCEPT !.st = "returned"]

\* Lines 249-250, and the return of Update.
GridStep(s, in) ==
    IF Failed(s) THEN s
    ELSE [s EXCEPT !.reg = UpdateGridPosition(s.reg, in.actor, s.buf),
                   !.st = "returned"]

\* Lines 26-251: the outcomes of Update on the working state s.
UpdateOutcomes(s, in, bm) ==
    LET purged == PurgeStep(ClearIfFar(s, in), in)
        seeded == { SeedStep(t, in) : t \in purged }
        changed == UNION { LaneChangeStep(t, in, bm) : t \in seeded }
        populated == UNION { Populate(t, in, MaxExtend) : t \in changed }
    IN  { GridStep(JunctionStep(t, in), in) : t \in populated }

\* ------------------------------------------------------------- the state

VARIABLES
    buffer_map,                 \* actor id -> waypoint buffer (a partial map)
    track_traffic,              \* grid cell -> set of actor ids
    last_lane_change_location,  \* actor id -> location (a partial map)
    vehicles_at_junction,       \* set of actor ids
    output_array,               \* index -> LocalizationData
    halted,                     \* the process has faulted or hangs in a loop
    ticks,                      \* number of Update calls made
    last_change,                \* actor id -> location of its last lane change
                                \* since it was removed or the stage reset
    last,                       \* what the last operation was and observed
    call,                       \* the lane-change step of the last Update of
                                \* a traffic scene
    workers                     \* the Updates that run concurrently: the
                                \* stage they started from, and the position
                                \* and the locals of each

vars ==
    <<buffer_map, track_traffic, last_lane_change_location,
      vehicles_at_junction, output_array, halted, ticks, last_change, last,
      call, workers>>

\* The constructor's vehicle_id_list; Update(index) serves
\* vehicle_id_list.at(index), here with indices from 1.
vehicle_id_list == <<1, 2>>

\* A value-initialised LocalizationData.
DefaultOutput == LocalizationData(FALSE, NULL, NULL)

\* No location.
NoLocation == << >>

\* ------------------------------------------------- the inputs of a tick

\* simulation_state: the location, heading and speed (the length of the
\* velocity vector) of the vehicle in the tick.
Kinematics(x, y, hx, hy, speed) ==
    [loc |-> <<x, y>>, heading |-> <<hx, hy>>, speed |-> speed]
VehicleStates ==
    { Kinematics(0, 0, 1, 0, 0), Kinematics(0, 0, 1, 0, 1),
      Kinematics(1, 0, 1, 0, 0), Kinematics(1, 0, 1, 0, 2),
      Kinematics(1, 0, -1, 0, 0),
      Kinematics(8, 0, 1, 0, 0),
      Kinematics(-11, 0, 1, 0, 1), Kinematics(-11, 0, 1, 0, 2),
      Kinematics(20, 0, 1, 0, 0), Kinematics(29, 0, 1, 0, 0) }

\* parameters: GetForceLaneChange, GetAutoLaneChange, GetKeepRightPercentage
\* (-1 when unset), and the draw rand() % 101 of that tick.
Policy(force, direction, auto, perc, rnd) ==
    [force |-> force, direction |-> direction, auto |-> auto,
     perc_keep_right |-> perc, rnd |-> rnd]
Policies ==
    { Policy(FALSE, FALSE, FALSE, -1, 0),
      Policy(FALSE, FALSE, TRUE, 50, 80),
      Policy(TRUE, TRUE, FALSE, -1, 0),
      Policy(TRUE, FALSE, FALSE, -1, 0),
      Policy(FALSE, FALSE, FALSE, KeepRightModulus - 1, 37) }

\* The ticks explored: vehicle 1 takes every state and policy above, vehicle
\* 2 is the other traffic at the start of lane A, standing or rolling one
\* waypoint on, left alone or forced to the right lane.
VehicleStatesOf(actor_id) ==
    IF actor_id = vehicle_id_list[1] THEN VehicleStates
    ELSE { Kinematics(0, 0, 1, 0, 0), Kinematics(1, 0, 1, 0, 0) }
PoliciesOf(actor_id) ==
    IF actor_id = vehicle_id_list[1] THEN Policies
    ELSE { Policy(FALSE, FALSE, FALSE, -1, 0), Policy(TRUE, TRUE, FALSE, -1, 0) }

Inputs(actor_id, kin, pol) ==
    [actor |-> actor_id, loc |-> kin.loc, heading |-> kin.heading,
     speed |-> kin.speed, force |-> pol.force, direction |-> pol.direction,
     auto |-> pol.auto, perc_keep_right |-> pol.perc_keep_right,
     rnd |-> pol.rnd]

\* No Update runs concurrently with another.
NoWorkers == [start |-> << >>, of |-> << >>]

\* No lane-change step observed.
NoCall ==
    [index |-> 0, actor |-> 0, auto |-> FALSE, policy_force |-> FALSE,
     lc |-> NoLaneChange, bm |-> << >>]

\* The lane-change step of Update(index) with inputs in that ended as the
\* working state s, the buffer map being bm at the call.
Observe(index, in, s, bm) ==
    [index |-> index, actor |-> in.actor, auto |-> in.auto,
     policy_force |-> in.force, lc |-> s.lc, bm |-> bm]

NoLast ==
    [op |-> "none", actor |-> 0, loc |-> NoLocation, speed |-> 0,
     st |-> "none", entrance |-> FALSE, changed |-> FALSE,
     negotiated |-> FALSE, empty_at_entry |-> FALSE, jpush |-> 0,
     prev_change |-> NoLocation, tracked |-> FALSE, fresh_output |-> FALSE]

\* ------------------------------------------------------------ operations

Init ==
    /\ buffer_map = << >>
    /\ track_traffic = [c \in Cells |-> {}]
    /\ last_lane_change_location = << >>
    /\ vehicles_at_junction = {}
    /\ output_array = [i \in 1 .. Len(vehicle_id_list) |-> DefaultOutput]
    /\ halted = FALSE
    /\ ticks = 0
    /\ last_change = [a \in ActorIds |-> NoLocation]
    /\ last = NoLast
    /\ call = NoCall
    /\ workers = NoWorkers

\* Lines 38-43: the actor's buffer, inserted empty when it has none.
BufferOf(actor_id) ==
    IF actor_id \in DOMAIN buffer_map THEN buffer_map[actor_id] ELSE << >>

\* The working state of an Update that begins with the given buffer,
\* registry, lane-change memory, junction-tracking set and output record.
Working(buf, reg, llc, vaj, out) ==
    [buf |-> buf, reg |-> reg, llc |-> llc, vaj |-> vaj, out |-> out,
     st |-> "run", entrance |-> FALSE, changed |-> FALSE,
     negotiated |-> FALSE, jpush |-> 0, j |-> NoScan, lc |-> NoLaneChange]

\* The working state at the entry of Update(index).
Entry(index) ==
    Working(BufferOf(vehicle_id_list[index]), track_traffic,
            last_lane_change_location, vehicles_at_junction,
            output_array[index])

\* The stage after Update(index) with inputs in ended as the working state s.
Commit(index, in, s) ==
    /\ buffer_map' =
           [a \in DOMAIN buffer_map \cup {in.actor} |->
              IF a = in.actor THEN s.buf ELSE buffer_map[a]]
    /\ track_traffic' = s.reg
    /\ last_lane_change_location' = s.llc
    /\ vehicles_at_junction' = s.vaj
    /\ output_array' = [output_array EXCEPT ![index] = s.out]
    /\ halted' = (s.st # "returned")
    /\ last_change' =
           IF s.changed
           THEN [last_change EXCEPT ![in.actor] = in.loc]
           ELSE last_change
    /\ last' =
           [op |-> "update", actor |-> in.actor, loc |-> in.loc,
            speed |-> in.speed, st |-> s.st, entrance |-> s.entrance,
            changed |-> s.changed, negotiated |-> s.negotiated,
            empty_at_entry |-> (BufferOf(in.actor) = << >>),
            jpush |-> s.jpush,
            prev_change |-> last_change[in.actor],
            tracked |-> (in.actor \in vehicles_at_junction),
            fresh_output |-> (output_array[index] = DefaultOutput)]

\* LocalizationStage::Update(index), lines 26-251.
Update(index) ==
    /\ ~halted
    /\ ticks < MaxTicks
    /\ \E kin \in VehicleStatesOf(vehicle_id_list[index]),
          pol \in PoliciesOf(vehicle_id_list[index]) :
        LET actor_id == vehicle_id_list[index]
            in == Inputs(actor_id, kin, pol)
        IN  \E s \in UpdateOutcomes(Entry(index), in, buffer_map) :
              Commit(index, in, s)
    /\ ticks' = ticks + 1
    /\ UNCHANGED <<call, workers>>

\* Variant of EraseJunction: the junction-tracking set is left alone.
EraseJunctionNone(vaj, actor_id) == vaj

\* Lines 253-263: the maps without the actor.
EraseLocation(llc, actor_id) ==
    IF actor_id \in DOMAIN llc
    THEN [a \in DOMAIN llc \ {actor_id} |-> llc[a]]
    ELSE llc
EraseJunction(vaj, actor_id) ==
    IF actor_id \in vaj THEN vaj \ {actor_id} ELSE vaj

\* LocalizationStage::RemoveActor(actor_id), lines 253-263.
RemoveActor(actor_id) ==
    /\ ~halted
    /\ last_lane_change_location' =
           EraseLocation(last_lane_change_location, actor_id)
    /\ vehicles_at_junction' = EraseJunction(vehicles_at_junction, actor_id)
    /\ last_change' = [last_change EXCEPT ![actor_id] = NoLocation]
    /\ last' = [NoLast EXCEPT
                   !.op = "remove", !.actor = actor_id, !.st = "returned",
                   !.tracked = (actor_id \in vehicles_at_junction),
                   !.prev_change =
                       IF actor_id \in DOMAIN last_lane_change_location
                       THEN last_lane_change_location[actor_id]
                       ELSE NoLocation]
    /\ UNCHANGED <<buffer_map, track_traffic, output_array, halted, ticks,
                   call, workers>>

\* LocalizationStage::Reset(), lines 265-269.
Reset ==
    /\ ~halted
    /\ last_lane_change_location' = << >>
    /\ vehicles_at_junction' = {}
    /\ last_change' = [a \in ActorIds |-> NoLocation]
    /\ last' = [NoLast EXCEPT !.op = "reset", !.st = "returned"]
    /\ UNCHANGED <<buffer_map, track_traffic, output_array, halted, ticks,
                   call, workers>>

\* The output frame is recreated for the tick: every record is
\* value-initialised.
NewFrame ==
    /\ ~halted
    /\ output_array' = [i \in DOMAIN output_array |-> DefaultOutput]
    /\ last' = [NoLast EXCEPT !.op = "frame", !.st = "returned"]
    /\ UNCHANGED <<buffer_map, track_traffic, last_lane_change_location,
                   vehicles_at_junction, halted, ticks, last_change, call,
                   workers>>

Next ==
    \/ \E index \in 1 .. Len(vehicle_id_list) : Update(index)
    \/ \E actor_id \in ActorIds : RemoveActor(actor_id)
    \/ Reset
    \/ NewFrame

Spec == Init /\ [][Next]_vars

\* ------------------------------------- traffic scenes of the three-lane road

\* The vehicle list of a scene.
ScenarioIds == <<0, 1, 2>>

\* parameters of a vehicle no policy is set for.
NoPolicy == Policy(FALSE, FALSE, FALSE, -1, 0)

\* The state and the parameters of the first update of a vehicle.
Placement(kin, pol) == [kin |-> kin, pol |-> pol]

\* A vehicle of the list that has not been updated yet.
Absent ==
    Placement([loc |-> NoLocation, heading |-> <<0, 0>>, speed |-> 0],
              NoPolicy)

\* Where the vehicles of a scene were when they were first updated: standing
\* on the middle lane (fronts 24, 25 and 26) or on the right lane, or at the
\* start of the left lane and forced over to the middle lane.
Placements ==
    { Placement(Kinematics(51, 0, 1, 0, 0), NoPolicy),
      Placement(Kinematics(52, 0, 1, 0, 0), NoPolicy),
      Placement(Kinematics(53, 0, 1, 0, 0), NoPolicy),
      Placement(Kinematics(51, 1, 1, 0, 0), NoPolicy),
      Placement(Kinematics(50, -1, 1, 0, 0),
                Policy(TRUE, TRUE, FALSE, -1, 0)) }

\* The scenes: each vehicle of the list is absent or was first updated at a
\* place of its own.
Scenes ==
    { placement \in [1 .. Len(ScenarioIds) -> Placements \cup {Absent}] :
        \A i, j \in 1 .. Len(ScenarioIds) :
            (i # j /\ placement[i] # Absent) => placement[i] # placement[j] }

\* The vehicle states and parameters of the Update explored from a scene: at
\* the start of the middle lane at speed, on the right lane, ahead of the
\* junction, at the first waypoint of the junction, and at the first waypoint
\* past the junction; changing lanes by itself, forced right, forced left,
\* and forced right by the keep-right bias.
ScenarioStates ==
    { Kinematics(50, 0, 1, 0, 10), Kinematics(51, 1, 1, 0, 0),
      Kinematics(52, 0, 1, 0, 1), Kinematics(54, 0, 1, 0, 0),
      Kinematics(56, 0, 1, 0, 0) }
ScenarioPolicies ==
    { Policy(FALSE, FALSE, TRUE, 50, 80),
      Policy(TRUE, TRUE, FALSE, -1, 0), Policy(TRUE, FALSE, FALSE, -1, 0),
      Policy(FALSE, FALSE, FALSE, KeepRightModulus - 1, 37) }

\* The stage as a record: the state after construction, and the state after
\* an Update(index) that ended as the working state s.
EmptyStage(ids) ==
    [bm |-> << >>, reg |-> [c \in Cells |-> {}], llc |-> << >>, vaj |-> {},
     out |-> [i \in 1 .. Len(ids) |-> DefaultOutput]]
StageAfter(stage, index, in, s) ==
    [bm |-> [a \in DOMAIN stage.bm \cup {in.actor} |->
               IF a = in.actor THEN s.buf ELSE stage.bm[a]],
     reg |-> s.reg, llc |-> s.llc, vaj |-> s.vaj,
     out |-> [stage.out EXCEPT ![index] = s.out]]

\* The stages after the first Update(index) of a vehicle placed as
\* placement.
FirstUpdate(stage, ids, index, placement) ==
    LET in == Inputs(ids[index], placement.kin, placement.pol)
    IN  { StageAfter(stage, index, in, s) :
          s \in { x \in UpdateOutcomes(
                            Working(<< >>, stage.reg, stage.llc, stage.vaj,
                                    stage.out[index]),
                            in, stage.bm) : x.st = "returned" } }

\* The stages after the first Update of every vehicle the placement places.
RECURSIVE Placed(_, _, _, _)
Placed(stages, ids, index, placement) ==
    IF index > Len(ids) THEN stages
    ELSE Placed(IF placement[index] = Absent THEN stages
                ELSE UNION { FirstUpdate(stage, ids, index, placement[index]) :
                             stage \in stages },
                ids, index + 1, placement)

InitScenario ==
    \E placement \in Scenes :
        \E stage \in Placed({EmptyStage(ScenarioIds)}, ScenarioIds, 1,
                             placement) :
            /\ buffer_map = stage.bm
            /\ track_traffic = stage.reg
            /\ last_lane_change_location = stage.llc
            /\ vehicles_at_junction = stage.vaj
            /\ output_array = stage.out
            /\ halted = FALSE
            /\ ticks = 0
            /\ last_change =
                   [a \in Range(ScenarioIds) |->
                      IF a \in DOMAIN stage.llc THEN stage.llc[a]
                      ELSE NoLocation]
            /\ last = NoLast
            /\ call = NoCall
            /\ workers = NoWorkers

\* LocalizationStage::Update(index), lines 26-251, for a vehicle of the scene;
\* the lane-change step is observed in call.  The calls of a tick go through
\* the vehicle list in index order.
ScenarioUpdate(index) ==
    /\ ~halted
    /\ ticks < MaxCalls
    /\ index > call.index
    /\ \E kin \in ScenarioStates, pol \in ScenarioPolicies :
        LET actor_id == ScenarioIds[index]
            in == Inputs(actor_id, kin, pol)
        IN  \E s \in UpdateOutcomes(
                        Working(BufferOf(actor_id), track_traffic,
                                last_lane_change_location,
                                vehicles_at_junction, output_array[index]),
                        in, buffer_map) :
              /\ Commit(index, in, s)
              /\ call' = Observe(index, in, s, buffer_map)
    /\ ticks' = ticks + 1
    /\ workers' = workers

ScenarioNext == \E index \in 1 .. Len(ScenarioIds) : ScenarioUpdate(index)

ScenarioSpec == InitScenario /\ [][ScenarioNext]_vars

\* --------------------------------------------- two Updates run concurrently

\* No lock is taken in Update or AssignLaneChange: two workers that call
\* Update for two vehicles interleave.  The interleavings followed here let a
\* worker run its Update in one piece, or stop once in it: after line 305 of
\* AssignLaneChange has found the buffer of the other vehicle non-empty, or
\* after the pops of lines 133-137 have emptied its own buffer.
WorkerIds == {1, 2}

\* The vehicle states and parameters of the concurrent Updates: at the start
\* of the middle lane at speed or on the right lane, changing lanes by itself
\* or forced right.
ConcurrentStates ==
    { Kinematics(50, 0, 1, 0, 10), Kinematics(51, 1, 1, 0, 0) }
ConcurrentPolicies ==
    { Policy(FALSE, FALSE, TRUE, 50, 80), Policy(TRUE, TRUE, FALSE, -1, 0) }

\* The scenes with two vehicles.
Present(placement) == { i \in 1 .. Len(ScenarioIds) : placement[i] # Absent }
ConcurrentScenes == { placement \in Scenes : Cardinality(Present(placement)) = 2 }

\* Worker 1 updates the first vehicle present, worker 2 the second.
IndexOfWorker(placement, w) ==
    LET first == CHOOSE i \in Present(placement) :
                     \A j \in Present(placement) : i <= j
    IN  IF w = 1 THEN first ELSE CHOOSE j \in Present(placement) : j # first

InitConcurrent ==
    \E placement \in ConcurrentScenes :
        \E stage \in Placed({EmptyStage(ScenarioIds)}, ScenarioIds, 1,
                             placement) :
            /\ buffer_map = stage.bm
            /\ track_traffic = stage.reg
            /\ last_lane_change_location = stage.llc
            /\ vehicles_at_junction = stage.vaj
            /\ output_array = stage.out
            /\ halted = FALSE
            /\ ticks = 0
            /\ last_change =
                   [a \in Range(ScenarioIds) |->
                      IF a \in DOMAIN stage.llc THEN stage.llc[a]
                      ELSE NoLocation]
            /\ last = NoLast
            /\ call = NoCall
            /\ workers =
                   [start |-> stage,
                    of |-> [w \in WorkerIds |->
                              [pc |-> "idle",
                               index |-> IndexOfWorker(placement, w)]]]

\* The vehicle of the other worker.
OtherActor(w) ==
    ScenarioIds[workers.of[CHOOSE v \in WorkerIds : v # w].index]

\* Lines 26-95 of the Update of worker w with inputs in: the working states
\* with the buffer purged and seeded.
Seeded(w, in) ==
    LET index == workers.of[w].index
        entry == Working(BufferOf(in.actor), track_traffic,
                         last_lane_change_location, vehicles_at_junction,
                         output_array[index])
    IN  { SeedStep(t, in) : t \in PurgeStep(ClearIfFar(entry, in), in) }

\* The working state t of a worker that resumes: the registry, the
\* lane-change memory, the junction-tracking set and the output array are the
\* shared ones.
Reread(t, index) ==
    [t EXCEPT !.reg = track_traffic, !.llc = last_lane_change_location,
              !.vaj = vehicles_at_junction, !.out = output_array[index]]

\* The writes of a worker that stops in its Update with working state t.
Publish(in, t) ==
    /\ buffer_map' = [a \in DOMAIN buffer_map \cup {in.actor} |->
                        IF a = in.actor THEN t.buf ELSE buffer_map[a]]
    /\ track_traffic' = t.reg
    /\ last_lane_change_location' = t.llc
    /\ vehicles_at_junction' = t.vaj
    /\ UNCHANGED <<output_array, halted, ticks, last_change, last, call>>

\* Lines 26-251 in one piece.
Whole(w) ==
    /\ ~halted
    /\ workers.of[w].pc = "idle"
    /\ \E kin \in ConcurrentStates, pol \in ConcurrentPolicies :
        LET index == workers.of[w].index
            in == Inputs(ScenarioIds[index], kin, pol)
        IN  \E s \in UpdateOutcomes(
                        Working(BufferOf(in.actor), track_traffic,
                                last_lane_change_location,
                                vehicles_at_junction, output_array[index]),
                        in, buffer_map) :
              /\ Commit(index, in, s)
              /\ workers' = [workers EXCEPT !.of[w] =
                                [pc |-> "done", index |-> index, in |-> in,
                                 path |-> "whole"]]
    /\ UNCHANGED <<ticks, call>>

\* Lines 26-305: the worker is in the scan of a non-forced call of
\* AssignLaneChange, the other vehicle is the blocking vehicle, and its
\* buffer was found in buffer_map and non-empty.
Check(w) ==
    /\ ~halted
    /\ workers.of[w].pc = "idle"
    /\ \E kin \in ConcurrentStates, pol \in ConcurrentPolicies :
        LET index == workers.of[w].index
            in == Inputs(ScenarioIds[index], kin, pol)
        IN  \E t \in { x \in Seeded(w, in) :
                         /\ ~Failed(x)
                         /\ LaneChangeEligible(x, in)
                         /\ ~ForceLaneChange(in)
                         /\ GetOverlappingVehicles(x.reg, in.actor)
                                = {OtherActor(w)}
                         /\ OtherActor(w) \in DOMAIN buffer_map
                         /\ buffer_map[OtherActor(w)] # << >> } :
              /\ Publish(in, t)
              /\ workers' = [workers EXCEPT !.of[w] =
                                [pc |-> "checked", index |-> index, in |-> in,
                                 t |-> t,
                                 blocking_vehicles |-> {OtherActor(w)},
                                 other_buffer |-> buffer_map[OtherActor(w)]]]

\* Lines 308-251: front() of the buffer of the other vehicle and the rest of
\* the Update.  On a buffer emptied since line 305, front() reads a popped
\* slot of the deque: the read faults or yields the waypoint that was there.
Resume(w) ==
    /\ ~halted
    /\ workers.of[w].pc = "checked"
    /\ LET wk == workers.of[w]
           in == wk.in
           t == Reread(wk.t, wk.index)
           emptied == buffer_map[OtherActor(w)] = << >>
           seen == IF emptied
                   THEN [buffer_map EXCEPT ![OtherActor(w)] = wk.other_buffer]
                   ELSE buffer_map
           results == AssignLaneChangeFrom(t, seen, wk.blocking_vehicles,
                                           in.loc, in.speed, FALSE,
                                           LaneChangeDirection(in))
           populated == UNION { Populate(LaneChangeResult(t, in, r), in,
                                         MaxExtend) : r \in results }
       IN  \/ /\ emptied
              /\ halted' = TRUE
              /\ workers' = [workers EXCEPT !.of[w] =
                                [pc |-> "done", index |-> wk.index,
                                 in |-> in, path |-> "checked"]]
              /\ UNCHANGED <<buffer_map, track_traffic,
                             last_lane_change_location, vehicles_at_junction,
                             output_array, last_change, last>>
           \/ \E u \in populated :
                /\ Commit(wk.index, in, GridStep(JunctionStep(u, in), in))
                /\ workers' = [workers EXCEPT !.of[w] =
                                  [pc |-> "done", index |-> wk.index,
                                   in |-> in, path |-> "checked"]]
    /\ UNCHANGED <<ticks, call>>

\* Lines 26-137: AssignLaneChange returned a change-over point, the location
\* is remembered and the buffer emptied.
PopAll(w) ==
    /\ ~halted
    /\ workers.of[w].pc = "idle"
    /\ \E kin \in ConcurrentStates, pol \in ConcurrentPolicies :
        LET index == workers.of[w].index
            in == Inputs(ScenarioIds[index], kin, pol)
        IN  \E t \in { x \in Seeded(w, in) :
                         ~Failed(x) /\ LaneChangeEligible(x, in) } :
              /\ \E r \in { x \in AssignLaneChange(
                                       t, buffer_map, in.actor, in.loc,
                                       in.speed, ForceLaneChange(in),
                                       LaneChangeDirection(in)) :
                              x.st = "run" /\ x.cop # NULL } :
                    /\ LET u == DiscardBuffer(
                                    [BeginLaneChange(t, in) EXCEPT
                                       !.negotiated = TRUE], in)
                       IN  /\ ~Failed(u)
                           /\ Publish(in, u)
                           /\ workers' = [workers EXCEPT !.of[w] =
                                             [pc |-> "popped",
                                              index |-> index, in |-> in,
                                              t |-> u,
                                              change_over_point |-> r.cop]]

\* Lines 138-251: the change-over point is pushed, and the rest of the
\* Update.
PushRest(w) ==
    /\ ~halted
    /\ workers.of[w].pc = "popped"
    /\ LET wk == workers.of[w]
           in == wk.in
           pushed == EndLaneChange(
                         PushWaypoint(in.actor, Reread(wk.t, wk.index),
                                      wk.change_over_point, "lane_change"),
                         wk.change_over_point)
       IN  \E u \in Populate(pushed, in, MaxExtend) :
             /\ Commit(wk.index, in, GridStep(JunctionStep(u, in), in))
             /\ workers' = [workers EXCEPT !.of[w] =
                               [pc |-> "done", index |-> wk.index, in |-> in,
                                path |-> "popped"]]
    /\ UNCHANGED <<ticks, call>>

ConcurrentNext ==
    \E w \in WorkerIds :
        \/ Whole(w)
        \/ Check(w)
        \/ Resume(w)
        \/ PopAll(w)
        \/ PushRest(w)

ConcurrentSpec == InitConcurrent /\ [][ConcurrentNext]_vars


\* ------------------------------------------------------------ properties

\* The index of an actor in vehicle_id_list.
IndexOf(actor_id) ==
    CHOOSE i \in 1 .. Len(vehicle_id_list) : vehicle_id_list[i] = actor_id

\* The last operation was an Update, and it returned.
Updated == last.op = "update" /\ last.st = "returned"

\* The buffer of the actor of the last operation.
LastBuffer == BufferOf(last.actor)

Contiguous(buf) ==
    \A i \in 1 .. Len(buf) - 1 :
        buf[i] # NULL /\ buf[i + 1] \in Range(GetNextWaypoint(buf[i]))

C2_BufferContiguity ==
    ~halted => \A a \in DOMAIN buffer_map : Contiguous(buffer_map[a])

\* An update changed lanes and extended the buffer from the change-over
\* point.
C2_Witness ==
    Updated /\ last.changed /\ ~last.empty_at_entry /\ Len(LastBuffer) >= 3

C4_LaneChangeSpacing ==
    (last.op = "update" /\ last.changed /\ last.prev_change # NoLocation) =>
        DistanceSquared(last.prev_change, last.loc)
            > SQUARE(MAX(10 * last.speed, INTER_LANE_CHANGE_DISTANCE))

\* A second lane change, at a speed where 10 * speed is the larger bound.
C4_Witness ==
    /\ last.op = "update" /\ last.changed /\ last.prev_change # NoLocation
    /\ 10 * last.speed > INTER_LANE_CHANGE_DISTANCE

\* C5: the populating loop of Update makes no out-of-range access and pushes
\* no null waypoint, whatever successor list the back of the buffer has.
C5_ExtensionNeverFails ==
    last.op = "update" =>
        last.st \notin {"populate:out_of_range", "populate:null_deref"}

\* C6: every Update call terminates, on every finite road graph.
C6_UpdateTerminates ==
    last.op = "update" =>
        last.st \notin {"junction:diverged", "populate:diverged",
                        "lane_change:diverged"}

\* C7: after an Update that was given a value-initialised output record, the
\* junction-entrance flag of the record equals the junction-entrance
\* determination of that update.
C7_OutputEqualsDetermination ==
    (Updated /\ last.fresh_output) =>
        output_array[IndexOf(last.actor)].is_at_junction_entrance
            = last.entrance

\* C8: RemoveActor(id) leaves id absent from the lane-change memory and from
\* the junction-tracking set, leaves the entries of the other actors as they
\* were, and a second RemoveActor(id) changes neither.
C8_RemoveActorIdempotent ==
    [][ \A id \in ActorIds :
          (last'.op = "remove" /\ last'.actor = id) =>
            /\ last'.st = "returned"
            /\ id \notin DOMAIN last_lane_change_location'
            /\ id \notin vehicles_at_junction'
            /\ EraseLocation(last_lane_change_location', id)
                   = last_lane_change_location'
            /\ EraseJunction(vehicles_at_junction', id) = vehicles_at_junction'
            /\ DOMAIN last_lane_change_location' \cup {id}
                   = DOMAIN last_lane_change_location \cup {id}
            /\ \A a \in DOMAIN last_lane_change_location' :
                   last_lane_change_location'[a] = last_lane_change_location[a]
            /\ vehicles_at_junction' \cup {id} = vehicles_at_junction \cup {id}
            /\ (last.op = "remove" /\ last.actor = id) =>
                   /\ last_lane_change_location' = last_lane_change_location
                   /\ vehicles_at_junction' = vehicles_at_junction
      ]_vars

\* RemoveActor of an actor that was in both maps, while the other actor is
\* in the lane-change memory.
C8_Witness ==
    /\ last.op = "remove" /\ last.tracked /\ last.prev_change # NoLocation
    /\ DOMAIN last_lane_change_location # {}

\* C9: after an Update that found the buffer empty and changed no lane, the
\* buffer starts with the waypoint of the vicinity lookup (of the guaranteed
\* lookup when there is none in the vicinity), each waypoint is followed by
\* one of its successors, and the back is the first waypoint farther than
\* horizon^2 from the front.
C9_Seeding ==
    (Updated /\ last.empty_at_entry /\ ~last.changed) =>
        /\ Front(LastBuffer) =
               IF GetWaypointInVicinity(last.loc) # NULL
               THEN GetWaypointInVicinity(last.loc)
               ELSE GetWaypoint(last.loc)
        /\ Contiguous(LastBuffer)
        /\ \A i \in 1 .. Len(LastBuffer) - 1 :
               WpDistanceSquared(LastBuffer[i], Front(LastBuffer))
                   <= HorizonSquare(last.speed)
        /\ BackToFront(LastBuffer) > HorizonSquare(last.speed)

\* A seeding through the guaranteed lookup: no waypoint in the vicinity.
C9_Witness ==
    /\ Updated /\ last.empty_at_entry /\ ~last.changed
    /\ GetWaypointInVicinity(last.loc) = NULL
    /\ Len(LastBuffer) >= 3

\* The buffer holds junction waypoints, the first waypoint after them that is
\* no junction waypoint, and a later waypoint farther than
\* SAFE_DISTANCE_AFTER_JUNCTION from that one.
ContainsJunctionSpan(buf) ==
    \E i, j, k \in 1 .. Len(buf) :
        /\ i < j /\ j < k
        /\ \A m \in 1 .. i - 1 : ~CheckJunction(buf[m])
        /\ \A m \in i .. j - 1 : CheckJunction(buf[m])
        /\ ~CheckJunction(buf[j])
        /\ WpDistanceSquared(buf[j], buf[k])
               > SQUARE(SAFE_DISTANCE_AFTER_JUNCTION)

\* The buffer as the junction step of the last Update found it.
ScannedBuffer == SubSeq(LastBuffer, 1, Len(LastBuffer) - last.jpush)

\* C10: when an actor not yet tracked is at junction entrance and the buffer
\* the junction step scans holds the junction span and a waypoint beyond the
\* safe distance, Update emits junction-entrance true with junction end and
\* safe point both set, and the junction extension pushes no waypoint.
C10_JunctionFoundInBuffer ==
    (Updated /\ last.entrance /\ ~last.tracked
             /\ ContainsJunctionSpan(ScannedBuffer)) =>
        /\ output_array[IndexOf(last.actor)].is_at_junction_entrance
        /\ output_array[IndexOf(last.actor)].junction_end_point # NULL
        /\ output_array[IndexOf(last.actor)].safe_point # NULL
        /\ last.jpush = 0

\* Such an update, with the span already in the buffer at its entry.
C10_Witness ==
    /\ Updated /\ last.entrance /\ ~last.tracked /\ ~last.empty_at_entry
    /\ ContainsJunctionSpan(ScannedBuffer)
    /\ last.jpush = 0

\* C13: an Update for actor a leaves, for every other actor b, the buffer, the
\* entry in the lane-change memory, the membership in the junction-tracking
\* set, the output record and the registry memberships of b as they were.
C13_ActorLocalEffects ==
    [][ last'.op = "update" =>
          \A b \in ActorIds \ {last'.actor} :
            /\ (b \in DOMAIN buffer_map') = (b \in DOMAIN buffer_map)
            /\ b \in DOMAIN buffer_map => buffer_map'[b] = buffer_map[b]
            /\ (b \in DOMAIN last_lane_change_location')
                   = (b \in DOMAIN last_lane_change_location)
            /\ b \in DOMAIN last_lane_change_location =>
                   last_lane_change_location'[b] = last_lane_change_location[b]
            /\ (b \in vehicles_at_junction') = (b \in vehicles_at_junction)
            /\ output_array'[IndexOf(b)] = output_array[IndexOf(b)]
            /\ \A c \in Cells :
                   (b \in track_traffic'[c]) = (b \in track_traffic[c])
      ]_vars

\* An update changed the lane of one actor while the other actor has a
\* buffer, an entry in the lane-change memory, is tracked at a junction and
\* has a written output record.
C13_Witness ==
    /\ Updated /\ last.changed
    /\ \E b \in ActorIds \ {last.actor} :
           /\ BufferOf(b) # << >>
           /\ b \in DOMAIN last_lane_change_location
           /\ b \in vehicles_at_junction
           /\ output_array[IndexOf(b)] # DefaultOutput

\* C15: after an Update returns, the actor is in the junction-tracking set
\* if and only if the update determined it to be at junction entrance; an
\* update that finds a tracked actor no longer at junction entrance writes
\* the output record with the flag false and junction end and safe point
\* both none.
C15_TrackingFollowsEntrance ==
    Updated =>
        /\ (last.actor \in vehicles_at_junction) = last.entrance
        /\ (last.tracked /\ ~last.entrance) =>
               output_array[IndexOf(last.actor)]
                   = LocalizationData(FALSE, NULL, NULL)

\* An update found a tracked actor no longer at junction entrance, its
\* output record still holding the junction of the earlier tick.
C15_Witness ==
    /\ Updated /\ last.tracked /\ ~last.entrance /\ ~last.fresh_output
    /\ last.actor \notin vehicles_at_junction

\* ------------------------------------------- the lane-change step observed

\* The last Update of the scene called AssignLaneChange.
Negotiated == last.op = "update" /\ last.negotiated /\ call.index # 0

CallActor == call.actor

\* The neighbour of the front waypoint on the side the call was asked for.
RequestedNeighbour ==
    IF call.lc.direction THEN GetRightWaypoint(Front(call.lc.buf))
    ELSE GetLeftWaypoint(Front(call.lc.buf))
OppositeNeighbour ==
    IF call.lc.direction THEN GetLeftWaypoint(Front(call.lc.buf))
    ELSE GetRightWaypoint(Front(call.lc.buf))

\* What AssignLaneChange can return for the arguments and the state of the
\* call observed.
NegotiatorResults ==
    AssignLaneChange([buf |-> call.lc.buf, reg |-> call.lc.reg], call.bm,
                     CallActor, last.loc, last.speed,
                     call.lc.force, call.lc.direction)

ReturnsNone == NegotiatorResults = { [cop |-> NULL, st |-> "run"] }

\* The lane-change step left the buffer and the lane-change memory as they
\* were.
StepUnchanged ==
    /\ call.lc.after_buf = call.lc.buf
    /\ call.lc.after_llc = call.lc.llc

\* C11: a lane change forced to the right (left) from a front waypoint with
\* no right (left) neighbour makes AssignLaneChange return none and the
\* lane-change step leave the buffer and the lane-change memory of the actor
\* unchanged, whatever the registry holds and whether or not the opposite
\* neighbour exists.
C11_ForcedWithoutNeighbour ==
    (Negotiated /\ call.lc.force /\ RequestedNeighbour = NULL) =>
        /\ ReturnsNone
        /\ call.lc.cop = NULL
        /\ StepUnchanged

\* A forced call from a front waypoint whose requested neighbour is missing,
\* whose opposite neighbour exists, with other vehicles overlapping.
C11_Witness ==
    /\ Negotiated /\ Updated
    /\ call.lc.force /\ RequestedNeighbour = NULL
    /\ OppositeNeighbour # NULL
    /\ GetOverlappingVehicles(call.lc.reg, CallActor) # {}
    /\ GetPassingVehicles(call.lc.reg, OppositeNeighbour) # {}

\* w is on the chain of first successors that starts at from.
RECURSIVE OnChain(_, _, _)
OnChain(from, w, fuel) ==
    /\ from # NULL
    /\ \/ from = w
       \/ /\ fuel > 0
          /\ GetNextWaypoint(from) # << >>
          /\ OnChain(GetNextWaypoint(from)[1], w, fuel - 1)

\* Actor b is a same-lane obstacle of the call observed, ahead of the vehicle
\* and farther than MINIMUM_LANE_CHANGE_DISTANCE and nearer than
\* MAXIMUM_LANE_OBSTACLE_DISTANCE.
ObstacleInReach(b) ==
    /\ b \in GetOverlappingVehicles(call.lc.reg, CallActor)
    /\ b \in DOMAIN call.bm
    /\ call.bm[b] # << >>
    /\ QualifiesAsObstacle(Front(call.lc.buf), Front(call.bm[b]))
    /\ DistanceSquared(last.loc, GetLocation(Front(call.bm[b])))
           > SQUARE(MINIMUM_LANE_CHANGE_DISTANCE)
    /\ DistanceSquared(last.loc, GetLocation(Front(call.bm[b])))
           < SQUARE(MAXIMUM_LANE_OBSTACLE_DISTANCE)

\* Both neighbours of the front waypoint exist and no actor passes through
\* any waypoint of their lanes.
NeighbourLanesFree ==
    LET front == Front(call.lc.buf)
        left == GetLeftWaypoint(front)
        right == GetRightWaypoint(front)
    IN  /\ left # NULL /\ right # NULL
        /\ \A w \in WaypointIds :
              (/\ GetRoadId(w) = GetRoadId(front)
               /\ GetLaneId(w) \in {GetLaneId(left), GetLaneId(right)})
              => GetPassingVehicles(call.lc.reg, w) = {}

\* C12: in the non-forced path, for actors A and B of any ids, when B is the
\* actor overlapping A, a same-lane obstacle ahead of A within reach, auto
\* lane change is enabled for A and both neighbour lanes exist and are free,
\* AssignLaneChange for A returns a change-over point on the chain of a
\* neighbour waypoint whose lane is free.
C12_ObstacleDrivenChange ==
    \A b \in Range(ScenarioIds) :
        (/\ Negotiated /\ ~call.lc.force /\ call.auto
         /\ GetOverlappingVehicles(call.lc.reg, CallActor) = {b}
         /\ ObstacleInReach(b)
         /\ NeighbourLanesFree)
        => \A r \in NegotiatorResults :
             /\ r.st = "run"
             /\ r.cop # NULL
             /\ \E side \in { GetLeftWaypoint(Front(call.lc.buf)),
                               GetRightWaypoint(Front(call.lc.buf)) } :
                   /\ GetPassingVehicles(call.lc.reg, side) = {}
                   /\ OnChain(side, r.cop, MaxExtend)

\* The claim of C12 for obstacles whose actor id is not 0.
C12_ObstacleDrivenChangeNonZero ==
    \A b \in Range(ScenarioIds) \ {0} :
        (/\ Negotiated /\ ~call.lc.force /\ call.auto
         /\ GetOverlappingVehicles(call.lc.reg, CallActor) = {b}
         /\ ObstacleInReach(b)
         /\ NeighbourLanesFree)
        => \A r \in NegotiatorResults :
             /\ r.st = "run"
             /\ r.cop # NULL
             /\ call.lc.cop = r.cop
             /\ \E side \in { GetLeftWaypoint(Front(call.lc.buf)),
                               GetRightWaypoint(Front(call.lc.buf)) } :
                   /\ GetPassingVehicles(call.lc.reg, side) = {}
                   /\ OnChain(side, r.cop, MaxExtend)

\* An obstacle-driven change: the obstacle, whose id is not 0, is the one
\* actor overlapping, both neighbour lanes are free, and a change-over point
\* is returned.
C12_Witness ==
    /\ Negotiated /\ Updated /\ ~call.lc.force /\ call.auto
    /\ \E b \in Range(ScenarioIds) \ {0} :
          /\ GetOverlappingVehicles(call.lc.reg, CallActor) = {b}
          /\ ObstacleInReach(b)
    /\ NeighbourLanesFree
    /\ call.lc.cop # NULL

\* The last Update of the scene emitted a safe point.
EmittedSafePoint ==
    /\ call.index # 0 /\ Updated
    /\ last.entrance /\ ~last.tracked
    /\ output_array[call.index].safe_point # NULL

\* In buffer buf, safe_point is the first waypoint at or after the junction
\* exit end_point that is farther than SAFE_DISTANCE_AFTER_JUNCTION from it,
\* or a branch point, or a junction waypoint.
FirstSafeAfterExit(buf, end_point, safe_point) ==
    \E e \in 1 .. Len(buf), k \in 1 .. Len(buf) :
        /\ e <= k
        /\ buf[e] = end_point
        /\ \A i \in 1 .. e - 1 : buf[i] # end_point
        /\ buf[k] = safe_point
        /\ \A i \in e .. k :
              (i = k) <=>
                  \/ WpDistanceSquared(end_point, buf[i])
                         > SQUARE(SAFE_DISTANCE_AFTER_JUNCTION)
                  \/ Len(GetNextWaypoint(buf[i])) > 1
                  \/ CheckJunction(buf[i])

\* C16: a safe point emitted by Update is the first waypoint in buffer order
\* at or after the junction exit that is farther than
\* SAFE_DISTANCE_AFTER_JUNCTION from the exit, or a branch point, or a
\* junction waypoint, whether it was found in the buffer or by extending it.
C16_SafePointDefinition ==
    EmittedSafePoint =>
        FirstSafeAfterExit(BufferOf(CallActor),
                           output_array[call.index].junction_end_point,
                           output_array[call.index].safe_point)

\* The claim of C16 for the updates whose junction exit was pushed by the
\* extension of lines 205-214.
C16_SafePointOfExtension ==
    (/\ EmittedSafePoint
     /\ output_array[call.index].junction_end_point
            \notin Range(SubSeq(BufferOf(CallActor), 1,
                                Len(BufferOf(CallActor)) - last.jpush)))
    => FirstSafeAfterExit(BufferOf(CallActor),
                          output_array[call.index].junction_end_point,
                          output_array[call.index].safe_point)

\* A safe point emitted after the junction exit, a branch point, was pushed
\* by the extension.
C16_Witness ==
    /\ EmittedSafePoint
    /\ last.jpush > 0
    /\ output_array[call.index].junction_end_point
           \notin Range(SubSeq(BufferOf(CallActor), 1,
                               Len(BufferOf(CallActor)) - last.jpush))
    /\ Len(GetNextWaypoint(output_array[call.index].safe_point)) > 1

\* Actor b is a same-lane obstacle of the call observed, ahead of the vehicle
\* and at most MINIMUM_LANE_CHANGE_DISTANCE from the vehicle location.
ObstacleTooClose(b) ==
    /\ b \in GetOverlappingVehicles(call.lc.reg, CallActor)
    /\ b \in DOMAIN call.bm
    /\ call.bm[b] # << >>
    /\ QualifiesAsObstacle(Front(call.lc.buf), Front(call.bm[b]))
    /\ DistanceSquared(last.loc, GetLocation(Front(call.bm[b])))
           <= SQUARE(MINIMUM_LANE_CHANGE_DISTANCE)

\* C17: in the non-forced path, when some qualifying same-lane obstacle is at
\* squared distance <= MINIMUM_LANE_CHANGE_DISTANCE^2 from the vehicle
\* location, AssignLaneChange returns none for every order in which the
\* overlapping actors are scanned, whatever other obstacles there are.
C17_TooCloseRejection ==
    (/\ Negotiated /\ ~call.lc.force
     /\ \E b \in Range(ScenarioIds) : ObstacleTooClose(b))
    => /\ ReturnsNone
       /\ call.lc.cop = NULL

\* An obstacle too close, a second obstacle in reach farther ahead that
\* would have driven a change, both neighbour lanes free.
C17_Witness ==
    /\ Negotiated /\ Updated /\ ~call.lc.force
    /\ \E b \in Range(ScenarioIds) : ObstacleTooClose(b)
    /\ \E c \in Range(ScenarioIds) \ {0} : ObstacleInReach(c)
    /\ NeighbourLanesFree

\* Actor b overlaps the actor of the call observed and qualifies as a
\* same-lane obstacle ahead of it.
ObstacleAhead(b) ==
    /\ b \in GetOverlappingVehicles(call.lc.reg, CallActor)
    /\ b \in DOMAIN call.bm
    /\ call.bm[b] # << >>
    /\ QualifiesAsObstacle(Front(call.lc.buf), Front(call.bm[b]))

\* C18: in the non-forced path AssignLaneChange returns a change-over point
\* only if some overlapping actor qualified as a same-lane obstacle nearer
\* than MAXIMUM_LANE_OBSTACLE_DISTANCE and farther than
\* MINIMUM_LANE_CHANGE_DISTANCE; when no overlapping actor qualifies the
\* result is none and the lane-change step leaves the buffer and the
\* lane-change memory as they were.
C18_NoProactiveChange ==
    (Negotiated /\ ~call.lc.force) =>
        /\ \A r \in NegotiatorResults :
              r.cop # NULL => \E b \in Range(ScenarioIds) : ObstacleInReach(b)
        /\ call.lc.cop # NULL
              => \E b \in Range(ScenarioIds) : ObstacleInReach(b)
        /\ (\A b \in Range(ScenarioIds) : ~ObstacleAhead(b))
              => /\ ReturnsNone
                 /\ call.lc.cop = NULL
                 /\ StepUnchanged

\* A non-forced call with auto lane change on, free neighbour lanes on both
\* sides and an overlapping actor that is no obstacle ahead.
C18_Witness ==
    /\ Negotiated /\ Updated /\ ~call.lc.force /\ call.auto
    /\ GetOverlappingVehicles(call.lc.reg, CallActor) # {}
    /\ \A b \in Range(ScenarioIds) : ~ObstacleAhead(b)
    /\ NeighbourLanesFree
    /\ call.lc.cop = NULL

\* What AssignLaneChange returns for the arguments and the buffer of the
\* call observed on a road with no other vehicle: an empty registry and no
\* other buffer.
NegotiatorResultsAlone ==
    AssignLaneChange([buf |-> call.lc.buf, reg |-> [c \in Cells |-> {}]],
                     << >>, CallActor, last.loc, last.speed,
                     call.lc.force, call.lc.direction)

\* C19: when force is true, from the policy or from the keep-right bias, and
\* the neighbour on the requested side exists, the result of
\* AssignLaneChange is the projection of that neighbour along its successor
\* chain for the speed, the same whatever the registry and the buffers of
\* the other actors hold.
C19_ForcedIgnoresOccupancy ==
    (Negotiated /\ call.lc.force /\ RequestedNeighbour # NULL) =>
        /\ NegotiatorResults = NegotiatorResultsAlone
        /\ NegotiatorResults =
              { ProjectChangeOver(RequestedNeighbour, RequestedNeighbour,
                                  last.speed, MaxExtend) }
        /\ \A r \in NegotiatorResults : r.st = "run" => call.lc.cop = r.cop

\* A change forced by the keep-right bias into a lane another vehicle
\* passes through, right next to the neighbour waypoint.
C19_Witness ==
    /\ Negotiated /\ Updated
    /\ call.lc.force /\ ~call.policy_force
    /\ RequestedNeighbour # NULL
    /\ GetPassingVehicles(call.lc.reg, RequestedNeighbour) # {}
    /\ GetOverlappingVehicles(call.lc.reg, CallActor) # {}
    /\ call.lc.cop # NULL

\* C20: in an Update where the negotiator returns a change-over point P the
\* lane-change memory of the actor becomes the vehicle location of the tick,
\* created or overwritten, every waypoint of the old buffer is popped, and
\* the buffer after the update has P as its front followed by a chain of
\* successors; when the negotiator returns none the step leaves the buffer
\* and the lane-change memory as they were.
C20_LaneChangeEffect ==
    Negotiated =>
        IF call.lc.cop # NULL
        THEN /\ CallActor \in DOMAIN call.lc.after_llc
             /\ call.lc.after_llc[CallActor] = last.loc
             /\ call.lc.after_buf = <<call.lc.cop>>
             /\ Updated =>
                   /\ CallActor \in DOMAIN last_lane_change_location
                   /\ last_lane_change_location[CallActor] = last.loc
                   /\ Front(BufferOf(CallActor)) = call.lc.cop
                   /\ Contiguous(BufferOf(CallActor))
        ELSE StepUnchanged

\* A lane change of an actor that had changed lanes before, from a buffer of
\* several waypoints to a buffer populated behind the change-over point.
C20_Witness ==
    /\ Negotiated /\ Updated
    /\ call.lc.cop # NULL
    /\ CallActor \in DOMAIN call.lc.llc
    /\ call.lc.llc[CallActor] # last.loc
    /\ Len(call.lc.buf) > 1
    /\ call.lc.cop # Front(call.lc.buf)
    /\ Len(BufferOf(CallActor)) > 1

\* ----------------------------------------------------- concurrent Updates

\* The outcomes of Update(index) with inputs in run alone from stage: the
\* stage it leaves and how it ended.
StageStep(stage, index, in) ==
    { [stage |-> StageAfter(stage, index, in, s), st |-> s.st] :
      s \in UpdateOutcomes(
                Working(IF in.actor \in DOMAIN stage.bm
                        THEN stage.bm[in.actor] ELSE << >>,
                        stage.reg, stage.llc, stage.vaj, stage.out[index]),
                in, stage.bm) }

\* The outcomes of the Update of worker first followed by the Update of
\* worker second, from stage.
SerialRuns(stage, first, second) ==
    LET alone == StageStep(stage, first.index, first.in)
    IN  { x \in alone : x.st # "returned" }
        \cup UNION { StageStep(x.stage, second.index, second.in) :
                     x \in { y \in alone : y.st = "returned" } }

\* Both workers have begun their Update, and both have returned from it.
Started ==
    /\ workers.of # << >>
    /\ \A w \in WorkerIds : workers.of[w].pc # "idle"
Finished ==
    /\ workers.of # << >>
    /\ \A w \in WorkerIds : workers.of[w].pc = "done"

\* The outcomes of the two Updates run one after the other, in either order.
Serial ==
    SerialRuns(workers.start, workers.of[1], workers.of[2])
        \cup SerialRuns(workers.start, workers.of[2], workers.of[1])

CurrentStage ==
    [bm |-> buffer_map, reg |-> track_traffic,
     llc |-> last_lane_change_location, vaj |-> vehicles_at_junction,
     out |-> output_array]

\* C14: two Updates for two distinct actors that run concurrently leave the
\* buffers, the registry, the lane-change memory, the junction-tracking set
\* and the outputs that running them one after the other, in one of the two
\* orders, leaves; an Update that returns when run in sequence returns when
\* run concurrently.
C14_ConcurrentUpdatesSerializable ==
    (Started /\ \A x \in Serial : x.st = "returned") =>
        /\ ~halted
        /\ Finished => CurrentStage \in { x.stage : x \in Serial }

\* Two concurrent Updates, one of them stopped in the middle, that ended as
\* one of the serial orders ends.
C14_Witness ==
    /\ Finished /\ ~halted
    /\ \E w \in WorkerIds : workers.of[w].path # "whole"
    /\ \A x \in Serial : x.st = "returned"
    /\ CurrentStage \in { x.stage : x \in Serial }

\* ------------------------------------------- the lane-change eligibility

\* The actor of the call had a lane-change memory when the lane-change step
\* began.
HadMemory == CallActor \in DOMAIN call.lc.llc

\* The vehicle is farther than max(10 * speed, INTER_LANE_CHANGE_DISTANCE)
\* from the location of the memory.
FarFromLastChange ==
    DistanceSquared(call.lc.llc[CallActor], last.loc)
        > SQUARE(MAX(10 * last.speed, INTER_LANE_CHANGE_DISTANCE))

\* C21: in every Update the negotiator is invoked, and the buffer replaced
\* by a change-over waypoint, only if the front waypoint of the buffer at the
\* lane-change step is not a junction waypoint, auto lane change is enabled
\* or a change is forced, and the actor has no lane-change memory or is
\* farther than max(10 * speed, INTER_LANE_CHANGE_DISTANCE) from its last
\* lane-change location.
C21_NoLaneChangeAtJunction ==
    (last.op = "update" /\ call.index # 0) =>
        /\ last.changed => last.negotiated
        /\ last.negotiated =>
              /\ ~CheckJunction(Front(call.lc.buf))
              /\ call.auto \/ call.lc.force
              /\ ~HadMemory \/ FarFromLastChange

\* An Update that invoked the negotiator for an actor that had changed lanes
\* before, and replaced the buffer.
C21_Witness ==
    /\ Negotiated /\ Updated
    /\ HadMemory
    /\ last.changed

\* ------------------------------------------- the change-over projection

\* The neighbour waypoints AssignLaneChange can choose in the call observed,
\* one for each order in which the overlapping vehicles can be scanned.
ChosenNeighbours ==
    { ChangeOverCandidate([buf |-> call.lc.buf, reg |-> call.lc.reg],
                          call.bm, acc, call.lc.force, call.lc.direction) :
      acc \in { ScanObstacles(ScanStart, order, call.lc.force,
                              Front(call.lc.buf), last.loc, call.bm) :
                order \in Orders(GetOverlappingVehicles(call.lc.reg,
                                                        CallActor)) } }
        \ {NULL}

\* clamp(1.5 * speed, 3, 20), doubled.
ClampedDistanceX2 == MIN(MAX(3 * last.speed, 6), 40)

\* w is reached from the waypoint from by taking first successors, and every
\* waypoint before w on that chain is a non-junction waypoint at a squared
\* distance from start smaller than the square of the clamped distance.
RECURSIVE WalkReaches(_, _, _, _)
WalkReaches(from, start, w, fuel) ==
    /\ from # NULL
    /\ \/ from = w
       \/ /\ fuel > 0
          /\ ~CheckJunction(from)
          /\ 4 * WpDistanceSquared(from, start) < SQUARE(ClampedDistanceX2)
          /\ GetNextWaypoint(from) # << >>
          /\ WalkReaches(GetNextWaypoint(from)[1], start, w, fuel - 1)

\* The walk of the projection read a successor that does not exist, or never
\* ended.
ProjectionFailed ==
    last.st \in { "lane_change:empty_front", "lane_change:null_deref",
                  "lane_change:diverged" }

\* AssignLaneChange chose a side in the call observed: it returned a
\* waypoint, or the walk of the projection failed.
SideChosen == call.lc.cop # NULL \/ ProjectionFailed

\* C22: when a side is chosen, the walk of the projection completes without
\* reading a successor of a waypoint that has none, and the waypoint
\* AssignLaneChange returns is reached from the chosen neighbour by taking
\* first successors, every waypoint before it on that chain being a
\* non-junction waypoint at squared distance < clamp(1.5 * speed, 3, 20)^2
\* from the neighbour, so that the walk never advances past a junction
\* waypoint.
C22_ChangeOverProjection ==
    (Negotiated /\ SideChosen) =>
        /\ ~ProjectionFailed
        /\ \E n \in ChosenNeighbours :
              WalkReaches(n, n, call.lc.cop, Len(WP))

\* The part of C22 that holds: when the walk completes, the waypoint
\* returned is reached from the chosen neighbour as C22 describes.
C22_ProjectionWhenCompleted ==
    (Negotiated /\ SideChosen /\ ~ProjectionFailed) =>
        \E n \in ChosenNeighbours : WalkReaches(n, n, call.lc.cop, Len(WP))

\* A side was chosen and the walk advanced from the neighbour until it
\* stopped at a junction waypoint nearer than the clamped distance.
C22_Witness ==
    /\ Negotiated /\ Updated
    /\ call.lc.cop # NULL
    /\ call.lc.cop \notin ChosenNeighbours
    /\ CheckJunction(call.lc.cop)
    /\ \A n \in ChosenNeighbours :
          4 * WpDistanceSquared(call.lc.cop, n) < SQUARE(ClampedDistanceX2)

\* ------------------------------------------- reads of the buffer's ends

\* The buffer of the actor at the entry of the Update observed.
EntryBuffer ==
    IF CallActor \in DOMAIN call.bm THEN call.bm[CallActor] ELSE << >>

\* The Update observed began with a non-empty buffer whose front is within
\* MAX_START_DISTANCE of the vehicle and whose waypoints the vehicle has all
\* passed (the vehicles of the scenes head along the road): the purge of the
\* passed waypoints pops every element.
PurgedToEmpty ==
    /\ last.op = "update" /\ call.index # 0
    /\ EntryBuffer # << >>
    /\ DistanceSquared(GetLocation(Front(EntryBuffer)), last.loc)
           <= SQUARE(MAX_START_DISTANCE)
    /\ \A i \in 1 .. Len(EntryBuffer) :
          DeviationDotProduct(last.loc, <<1, 0>>,
                              GetLocation(EntryBuffer[i])) <= 0

\* C23: the buffer is non-empty wherever Update reads its front or back:
\* no Update evaluates the junction-entrance determination on an empty
\* buffer, and the lane-change step and the populate loop of an Update find
\* a buffer with at least one waypoint.
C23_BufferReadsNonEmpty ==
    (last.op = "update" /\ call.index # 0) =>
        /\ ~PurgedToEmpty
        /\ last.st # "entrance:empty_front"
        /\ Updated => (call.lc.buf # << >> /\ call.lc.after_buf # << >>)

\* The part of C23 that holds: the lane-change step and the populate loop
\* of an Update that returns find a buffer with at least one waypoint, the
\* purge having emptied it or not.
C23_ReadsAfterSeeding ==
    (last.op = "update" /\ call.index # 0 /\ Updated) =>
        (call.lc.buf # << >> /\ call.lc.after_buf # << >>)

\* An Update whose purge emptied the buffer, whose read of the front of the
\* empty buffer did not fault, and which seeded the buffer anew and
\* returned.
C23_Witness ==
    /\ PurgedToEmpty /\ Updated
    /\ Len(call.lc.buf) = 1

\* ------------------------------------------- the junction points emitted

\* The index of the output record of the actor of the last Update.
WrittenIndex == IF call.index # 0 THEN call.index ELSE IndexOf(last.actor)

\* The last operation is an Update that wrote the output record of the
\* actor with a junction end point: the actor was at junction entrance and
\* not tracked.
WroteJunctionPoints ==
    /\ Updated /\ last.entrance /\ ~last.tracked
    /\ output_array[WrittenIndex].junction_end_point # NULL

\* In the buffer buf the waypoint end_point is a non-junction waypoint
\* immediately preceded by a junction waypoint, and safe_point is the
\* element at the same or a later index.
GenuineJunctionPoints(buf, end_point, safe_point) ==
    \E i \in 2 .. Len(buf) :
        /\ buf[i] = end_point
        /\ ~CheckJunction(end_point)
        /\ CheckJunction(buf[i - 1])
        /\ \E k \in i .. Len(buf) : buf[k] = safe_point

\* C24: whenever Update writes a junction end point, that waypoint is an
\* element of the actor's buffer at the end of the update, is a non-junction
\* waypoint and is immediately preceded in the buffer by a junction
\* waypoint, and the safe point written is a buffer element at an index not
\* smaller than that of the junction end point; a lane change that replaced
\* the buffer after the junction entrance was determined included.
C24_JunctionPointsGenuine ==
    WroteJunctionPoints =>
        GenuineJunctionPoints(LastBuffer,
                              output_array[WrittenIndex].junction_end_point,
                              output_array[WrittenIndex].safe_point)

\* The part of C24 that holds: the junction points are genuine whenever the
\* junction entrance was determined on a buffer the purge had not emptied.
C24_GenuineUnlessPurgedToEmpty ==
    (WroteJunctionPoints /\ ~PurgedToEmpty) =>
        GenuineJunctionPoints(LastBuffer,
                              output_array[WrittenIndex].junction_end_point,
                              output_array[WrittenIndex].safe_point)

\* An Update that determined the junction entrance, replaced the buffer by
\* the change-over point reached from a neighbour lane, and wrote junction
\* points of the new buffer.
C24_Witness ==
    /\ WroteJunctionPoints /\ ~PurgedToEmpty
    /\ last.changed
    /\ call.lc.cop # Front(call.lc.buf)
    /\ Front(LastBuffer) = call.lc.cop
    /\ GenuineJunctionPoints(LastBuffer,
                             output_array[WrittenIndex].junction_end_point,
                             output_array[WrittenIndex].safe_point)

=========================================================================
